---- MODULE Spec2Model ----
(***************************************************************************)
(* Model of the corpus curation scripts of wrm-cli:                        *)
(*   scripts/download_swmm_examples.py    (dialect A, local repository)    *)
(*   scripts/download_epanet_examples.py  (dialect B, remote repository)   *)
(*                                                                         *)
(* Text is modelled as a sequence of words.  The word NL is a line break   *)
(* and the word IND is the leading whitespace of an indented line; every   *)
(* other word is a maximal run of non-blank characters.  Every line ends   *)
(* with NL.  String tests of the code (startswith, in, upper, regular      *)
(* expressions) are tables over the finite vocabulary used by the model.   *)
(***************************************************************************)
EXTENDS Integers, Sequences, FiniteSets, TLC

VARIABLES
    dialect,          \* "A": download_swmm_examples, "B": download_epanet_examples
    folder,           \* folder_path of the document, a sequence of directory names
    tree,             \* the repository tree: set of [dir, name, type]
    source,           \* text of the document as stored in the repository
    pc,               \* position inside process_inp_file(_parallel)
    content,          \* text read from the document
    external_files,   \* set of extracted references
    todo,             \* references not yet resolved (dialect B loop)
    cand,             \* candidate location being tried for the current reference
    cur,              \* reference being resolved (dialect B), "" when none
    found_files,      \* function: reference -> location [dir, name]
    missing_files,    \* set of references that could not be resolved
    issues,           \* sequence of issues returned by the validator
    is_valid,         \* verdict of the validator after the leniency rule
    validate_calls,   \* number of validator invocations
    tocopy,           \* resolved references still to be staged
    output,           \* staged files: set of [dir, name]
    result,           \* returned (ok, info): [ok, reason], reason "" if none
    processed_count,  \* shared progress counter (dialect A)
    last_request,     \* path of the last directory-listing request
    last_status,      \* HTTP status of the last listing response, 0 if none
    last_listing,     \* what get_repo_contents returned for it
    throttled,        \* references for which a listing request was throttled
    clock             \* time slept so far

VARIABLES
    corpus,           \* the documents of the repository: doc -> [source, fault, present]
    run,              \* which run of main this is (0: no batch)
    mainpc,           \* position inside main
    inp_files,        \* documents found by find_inp_files(_local) in this run
    wpc,              \* doc -> position of the worker processing it
    wres,             \* doc -> reason the worker is about to return ("" if none)
    wtmp,             \* doc -> value of processed_count the worker has loaded
    lock,             \* holder of counter_lock, 0 when free
    valid_files,      \* entries main appended to valid_files in this run
    invalid_files,    \* entries main appended to invalid_files in this run
    validated,        \* set of <<run, doc>>: documents given to the validator
    copied,           \* set of <<run, file>>: files copied to the output corpus
    summaries,        \* per finished run: the summary main writes
    in_lock,          \* FALSE once processed_count was written without the lock
    reprocess_invalid \* dialect B: --reprocess-invalid is in sys.argv

VARIABLES
    sim_type,         \* validate_input.main: the detected file type
    lint_issues       \* validate_input: issues of the validator run by main

docvars == <<dialect, folder, tree, source, pc, content, external_files, todo,
             cand, cur, found_files, missing_files, issues, is_valid,
             validate_calls, tocopy, output, result, processed_count,
             last_request, last_status, last_listing, throttled, clock>>

batchvars == <<corpus, run, mainpc, inp_files, wpc, wres, wtmp, lock,
               valid_files, invalid_files, validated, copied, summaries,
               in_lock, reprocess_invalid>>

lintvars == <<sim_type, lint_issues>>

VARIABLES
    wait_pc,          \* position inside WRAPIClient.wait_for_completion
    now,              \* time.time()
    start_time,       \* start_time of the polling loop
    timeout,          \* argument timeout
    interval,         \* argument interval
    sim,              \* what the last get_simulation returned
    polls,            \* the status fetches made so far, in order
    slept,            \* total time spent in time.sleep
    wait_result       \* value returned by wait_for_completion

clientvars == <<wait_pc, now, start_time, timeout, interval, sim, polls,
                slept, wait_result>>

VARIABLES
    rb_pc,            \* position inside run_batch
    rb_inputs,        \* input files not yet submitted
    simulations,      \* run_batch: list of [id, status]
    completed,        \* run_batch: set of ids observed completed or failed
    rb_i,             \* index of the for loop over simulations
    rb_polled,        \* id whose status the last loop step fetched, 0 if none
    rb_summary        \* [success, failed, other] as printed

runbatchvars == <<rb_pc, rb_inputs, simulations, completed, rb_i, rb_polled,
                  rb_summary>>

VARIABLES
    ini_pc,           \* position inside copy_and_update_ini_file
    ini_source,       \* the .ini file beside the input file, NoFile if none
    ini_copy,         \* the .ini file written to the results folder
    ini_again,        \* the copy made when ini_copy is itself processed
    ini_processed     \* value returned by copy_and_update_ini_file

inivars == <<ini_pc, ini_source, ini_copy, ini_again, ini_processed>>

VARIABLES
    scan_pc,            \* position inside validate_input.validate_swmm_file
    scan_lines,         \* lines = content.split('\n')
    scan_i,             \* i of enumerate(lines, 1)
    current_section,    \* current_section, "" for None
    section_order,      \* section_order
    defined_timeseries, \* defined_timeseries
    scan_issues         \* issues

scanvars == <<scan_pc, scan_lines, scan_i, current_section, section_order,
              defined_timeseries, scan_issues>>

toolvars == <<clientvars, runbatchvars, inivars, scanvars>>

vars == <<docvars, batchvars, lintvars, toolvars>>

-----------------------------------------------------------------------------
(* Words and the string tests of the code *)

NL == "\n"
IND == " "

IsSpace(w) == w \in {NL, IND}

\* str.upper() on the words of the vocabulary that are not upper case already
Upper(w) ==
    CASE w = "[backdrop]" -> "[BACKDROP]"
      [] w = "file" -> "FILE"
      [] w = "timeseries" -> "TIMESERIES"
      [] OTHER -> w

\* words whose first character is '[' (the only place a '[' occurs in a word)
BracketWords ==
    {"[OPTIONS]", "[TITLE]", "[JUNCTIONS]", "[SUBCATCHMENTS]", "[CONDUITS]",
     "[STORAGE]", "[INFILTRATION]", "[RAINGAGES]", "[TIMESERIES]",
     "[BACKDROP]", "[backdrop]", "[PIPES]", "[TANKS]", "[RESERVOIRS]",
     "[mm/hr]", "[OPTIONS"}

StartsWithBracket(w) == w \in BracketWords

\* words whose last character is ']'
EndsWithBracket(w) == w \in (BracketWords \ {"[OPTIONS"}) \cup {"RAINGAGES]"}

\* words whose first character is ';'
StartsWithSemicolon(w) == w \in {";", ";J9"}

\* quoted words and the text between their quotes
QuotePairs ==
    { <<"\"rain.dat\"", "rain.dat">>,
      <<"\"flow.dat\"", "flow.dat">>,
      <<"\"/opt/rain.dat\"", "/opt/rain.dat">>,
      <<"\"/home/u/rain.dat\"", "/home/u/rain.dat">>,
      <<"\"D:\\rain.dat\"", "D:\\rain.dat">>,
      <<"\"C:rain.dat\"", "C:rain.dat">> }

IsQuoted(w) == \E p \in QuotePairs : p[1] = w

Inner(w) == (CHOOSE p \in QuotePairs : p[1] = w)[2]

\* file_path.startswith('/')
StartsWithSlash(p) == p \in {"/opt/rain.dat", "/home/u/rain.dat"}

\* ':\\' in file_path
HasColonBackslash(p) == p \in {"D:\\rain.dat", "\"D:\\rain.dat\""}

\* file_path.startswith('C:')
StartsWithCColon(p) == p \in {"C:rain.dat"}

\* a word matched by ["']([C-Z]:\\|/Users/|/home/)
AbsPathLiteral(w) == w \in {"\"D:\\rain.dat\"", "\"/home/u/rain.dat\""}

\* float(word) in tenths; NotANumber stands for ValueError
NotANumber == -1

NumberWords == {"0", "0.5", "1.0", "1.5", "3.0", "100"}

Float10(w) ==
    CASE w = "0" -> 0
      [] w = "0.5" -> 5
      [] w = "1.0" -> 10
      [] w = "1.5" -> 15
      [] w = "3.0" -> 30
      [] w = "100" -> 1000
      [] OTHER -> NotANumber

-----------------------------------------------------------------------------
(* Text helpers *)

MinOf(S) == CHOOSE x \in S : \A y \in S : x <= y

\* lines (sequences of words) joined into a text, each line ended by NL
RECURSIVE Text(_)
Text(lines) ==
    IF lines = <<>> THEN <<>>
    ELSE Head(lines) \o <<NL>> \o Text(Tail(lines))

\* the lines of a text: text.split('\n')
RECURSIVE SplitLines(_)
SplitLines(text) ==
    LET S == {i \in 1..Len(text) : text[i] = NL}
    IN  IF S = {} THEN <<text>>
        ELSE <<SubSeq(text, 1, MinOf(S) - 1)>>
             \o SplitLines(SubSeq(text, MinOf(S) + 1, Len(text)))

\* line.split(): the words of a line
Parts(line) == SelectSeq(line, LAMBDA w : ~IsSpace(w))

\* '<word>' in content, for a word that only occurs whole
Contains(text, w) == \E i \in 1..Len(text) : text[i] = w

\* '<word>' in content.upper()
ContainsUpper(text, w) == \E i \in 1..Len(text) : Upper(text[i]) = w

\* content.find(word): index of the first occurrence, 0 if none
Find(text, w) ==
    LET S == {i \in 1..Len(text) : text[i] = w}
    IN  IF S = {} THEN 0 ELSE MinOf(S)

\* ^ of a MULTILINE regular expression applied to the whole content
AtLineStart(text, i) == i = 1 \/ text[i - 1] = NL

\* text.split('[')[0]: the text before the first '['
BeforeFirstBracket(text) ==
    LET S == {i \in 1..Len(text) : StartsWithBracket(text[i])}
    IN  IF S = {} THEN text ELSE SubSeq(text, 1, MinOf(S) - 1)

\* content.split(header)[1].split('[')[0]
SectionText(text, header) ==
    BeforeFirstBracket(SubSeq(text, Find(text, header) + 1, Len(text)))

\* index of the first non-blank word after position i (what \s+ skips to)
NextWord(text, i) ==
    LET S == {j \in (i + 1)..Len(text) : ~IsSpace(text[j])}
    IN  IF S = {} THEN 0 ELSE MinOf(S)

-----------------------------------------------------------------------------
(* Reference extraction: parse_swmm_for_external_files and                 *)
(* parse_inp_for_external_files (the two functions have the same body)     *)

\* backdrop_start: position of the first [BACKDROP] at the start of a line,
\* 0 for None
BackdropStart(text) ==
    IF ~ContainsUpper(text, "[BACKDROP]") THEN 0
    ELSE LET S == {i \in 1..Len(text) :
                      AtLineStart(text, i) /\ Upper(text[i]) = "[BACKDROP]"}
         IN  IF S = {} THEN 0 ELSE MinOf(S)

\* backdrop_end: position of the next line that starts with '[', or the end
BackdropEnd(text) ==
    LET bs == BackdropStart(text)
        S == {j \in (bs + 1)..Len(text) :
                 AtLineStart(text, j) /\ StartsWithBracket(text[j])}
    IN  IF S = {} THEN Len(text) + 1 ELSE MinOf(S)

\* backdrop_start <= match.start() < backdrop_end
InBackdropSpan(text, i) ==
    /\ BackdropStart(text) # 0
    /\ BackdropStart(text) <= i
    /\ i < BackdropEnd(text)

\* positions where FILE\s+ is followed by a word (re.IGNORECASE)
FileMatches(text) ==
    {i \in 1..Len(text) : Upper(text[i]) = "FILE" /\ NextWord(text, i) # 0}

\* group(1) of FILE\s+["']([^"']+)["'] at a match position; the pattern
\* matches only when the word after FILE is quoted
QuotedCaptures(text) ==
    {[at |-> i, path |-> Inner(text[NextWord(text, i)])] :
        i \in {j \in FileMatches(text) : IsQuoted(text[NextWord(text, j)])}}

\* group(1) of FILE\s+([^\s]+) at a match position: the whole word
BareCaptures(text) ==
    {[at |-> i, path |-> text[NextWord(text, i)]] : i \in FileMatches(text)}

\* the test that skips absolute paths
IsAbsolutePath(p) ==
    StartsWithSlash(p) \/ HasColonBackslash(p) \/ StartsWithCColon(p)

parse_swmm_for_external_files(text) ==
    {m.path : m \in {c \in QuotedCaptures(text) \cup BareCaptures(text) :
                        /\ ~InBackdropSpan(text, c.at)
                        /\ ~IsAbsolutePath(c.path)}}

parse_inp_for_external_files(text) == parse_swmm_for_external_files(text)

-----------------------------------------------------------------------------
(* Local resolution: find_external_file_local *)

NoPath == [dir |-> <<>>, name |-> ""]

\* path.exists() and path.is_file()
IsFile(t, dir, name) == [dir |-> dir, name |-> name, type |-> "file"] \in t

\* a variant that tries the shared DataFiles folder before the data subfolder
find_external_file_local_shared_first(t, folder_path, filename) ==
    IF IsFile(t, folder_path, filename)
    THEN [dir |-> folder_path, name |-> filename]
    ELSE IF IsFile(t, <<"DataFiles">>, filename)
    THEN [dir |-> <<"DataFiles">>, name |-> filename]
    ELSE IF IsFile(t, folder_path \o <<"data">>, filename)
    THEN [dir |-> folder_path \o <<"data">>, name |-> filename]
    ELSE NoPath

find_external_file_local(t, folder_path, filename) ==
    IF IsFile(t, folder_path, filename)
    THEN [dir |-> folder_path, name |-> filename]
    ELSE IF IsFile(t, folder_path \o <<"data">>, filename)
    THEN [dir |-> folder_path \o <<"data">>, name |-> filename]
    ELSE IF IsFile(t, <<"DataFiles">>, filename)
    THEN [dir |-> <<"DataFiles">>, name |-> filename]
    ELSE NoPath

-----------------------------------------------------------------------------
(* Validators of the two scripts *)

Issue(m, a) == [msg |-> m, arg |-> a]

\* line.strip() and not line.strip().startswith(';')
IsDataLine(line) ==
    Parts(line) # <<>> /\ ~StartsWithSemicolon(Parts(line)[1])

\* the infiltration check of one section: rows with at least 4 fields whose
\* 4th field is a number greater than 1.0
RECURSIVE ImdIssues(_)
ImdIssues(lines) ==
    IF lines = <<>> THEN <<>>
    ELSE LET parts == Parts(Head(lines))
             bad == /\ IsDataLine(Head(lines))
                    /\ Len(parts) >= 4
                    /\ Float10(parts[4]) # NotANumber
                    /\ Float10(parts[4]) > 10
         IN  (IF bad THEN <<Issue("Invalid IMD value", parts[4])>> ELSE <<>>)
             \o ImdIssues(Tail(lines))

\* defined_ts: first word of every data line of the time-series section
DefinedTs(lines) ==
    {Parts(lines[i])[1] : i \in {j \in 1..Len(lines) : IsDataLine(lines[j])}}

\* the loop over the parts of one rain-gauge line
RECURSIVE GagePartIssues(_, _, _)
GagePartIssues(parts, i, defined) ==
    IF i > Len(parts) THEN <<>>
    ELSE (IF /\ Upper(parts[i]) = "TIMESERIES"
             /\ i + 1 <= Len(parts)
             /\ parts[i + 1] \notin defined
          THEN <<Issue("Undefined TIMESERIES", parts[i + 1])>>
          ELSE <<>>)
         \o GagePartIssues(parts, i + 1, defined)

\* the loop over the lines of the rain-gauge section
RECURSIVE GageIssues(_, _)
GageIssues(lines, defined) ==
    IF lines = <<>> THEN <<>>
    ELSE LET line == Head(lines)
             scanned == /\ ContainsUpper(line, "TIMESERIES")
                        /\ ~(Parts(line) # <<>>
                             /\ StartsWithSemicolon(Parts(line)[1]))
         IN  (IF scanned THEN GagePartIssues(Parts(line), 1, defined)
              ELSE <<>>)
             \o GageIssues(Tail(lines), defined)

\* validate_swmm_file of download_swmm_examples.py: the list of issues
validate_swmm_file(text) ==
    LET has_hydrology == Contains(text, "[SUBCATCHMENTS]")
        has_hydraulics == \/ Contains(text, "[JUNCTIONS]")
                          \/ Contains(text, "[CONDUITS]")
                          \/ Contains(text, "[STORAGE]")
        both == Contains(text, "[RAINGAGES]") /\ Contains(text, "[TIMESERIES]")
        raingages_pos == Find(text, "[RAINGAGES]")
        timeseries_pos == Find(text, "[TIMESERIES]")
        raingages_section ==
            BeforeFirstBracket(SubSeq(text, raingages_pos, Len(text)))
    IN  (IF ~Contains(text, "[OPTIONS]")
         THEN <<Issue("Missing required section", "[OPTIONS]")>> ELSE <<>>)
        \o
        (IF ~has_hydrology /\ ~has_hydraulics
         THEN <<Issue("Missing model elements", "")>> ELSE <<>>)
        \o
        (IF Contains(text, "[INFILTRATION]")
         THEN ImdIssues(SplitLines(SectionText(text, "[INFILTRATION]")))
         ELSE <<>>)
        \o
        (IF both
         THEN GageIssues(SplitLines(SectionText(text, "[RAINGAGES]")),
                         DefinedTs(SplitLines(SectionText(text, "[TIMESERIES]"))))
         ELSE <<>>)
        \o
        (IF /\ both
            /\ timeseries_pos > raingages_pos
            /\ ContainsUpper(raingages_section, "TIMESERIES")
         THEN <<Issue("[TIMESERIES] should come before [RAINGAGES]", "")>>
         ELSE <<>>)
        \o
        (IF \E i \in 1..Len(text) : AbsPathLiteral(text[i])
         THEN <<Issue("Contains absolute file paths", "")>> ELSE <<>>)

\* re.findall(r'^(\S+)\s+', section, re.MULTILINE): the first word of every
\* line of a section text that starts in column 0 (the text itself starts
\* behind the section header, never at a line start)
FirstWords(text) ==
    {text[j] : j \in {k \in 2..Len(text) :
                         text[k - 1] = NL /\ ~IsSpace(text[k])}}

\* re.findall(r'^(\S+)\s+(\S+)\s+(\S+)', section, re.MULTILINE) from
\* position p on: three consecutive words, the first one at a line start
RECURSIVE PipeScan(_, _)
PipeScan(text, p) ==
    LET S == {j \in p..Len(text) :
                 /\ j >= 2
                 /\ text[j - 1] = NL
                 /\ ~IsSpace(text[j])
                 /\ NextWord(text, j) # 0
                 /\ NextWord(text, NextWord(text, j)) # 0}
    IN  IF S = {} THEN <<>>
        ELSE LET j == MinOf(S)
                 a == NextWord(text, j)
                 b == NextWord(text, a)
             IN  << <<text[j], text[a], text[b]>> >> \o PipeScan(text, b + 1)

\* pipes[:10]
MaxPipesChecked == 10

\* the loop over the first pipes: node1, node2 = pipe[0], pipe[1]
RECURSIVE PipeIssues(_, _)
PipeIssues(pipes, all_nodes) ==
    IF pipes = <<>> THEN <<>>
    ELSE LET node1 == Head(pipes)[1]
             node2 == Head(pipes)[2]
         IN  (IF node1 \notin all_nodes
              THEN <<Issue("Pipe references undefined node", node1)>>
              ELSE <<>>)
             \o
             (IF node2 \notin all_nodes
              THEN <<Issue("Pipe references undefined node", node2)>>
              ELSE <<>>)
             \o PipeIssues(Tail(pipes), all_nodes)

\* validate_inp_file of download_epanet_examples.py: the list of issues
validate_inp_file(text) ==
    LET Section(h) == IF Contains(text, h) THEN SectionText(text, h) ELSE <<>>
        junctions == FirstWords(Section("[JUNCTIONS]"))
        pipes == PipeScan(Section("[PIPES]"), 1)
        all_nodes == junctions \cup FirstWords(Section("[TANKS]"))
                               \cup FirstWords(Section("[RESERVOIRS]"))
        first == SubSeq(pipes, 1,
                        IF Len(pipes) < MaxPipesChecked THEN Len(pipes)
                        ELSE MaxPipesChecked)
    IN  (IF ~Contains(text, "[JUNCTIONS]")
         THEN <<Issue("Missing required section", "[JUNCTIONS]")>> ELSE <<>>)
        \o
        (IF ~Contains(text, "[PIPES]")
         THEN <<Issue("Missing required section", "[PIPES]")>> ELSE <<>>)
        \o
        (IF ~Contains(text, "[TANKS]") /\ ~Contains(text, "[RESERVOIRS]")
         THEN <<Issue("No tanks or reservoirs found", "")>> ELSE <<>>)
        \o
        (IF pipes # <<>> THEN PipeIssues(first, all_nodes) ELSE <<>>)
        \o
        (IF \E i \in 1..Len(text) : AbsPathLiteral(text[i])
         THEN <<Issue("Contains absolute file paths", "")>> ELSE <<>>)

\* 'Missing required section' not in str(issues): no issue argument holds
\* that phrase (arguments are single words), so it occurs only as a message
MentionsMissingRequiredSection(iss) ==
    \E i \in 1..Len(iss) : iss[i].msg = "Missing required section"

\* the tolerated number of issues: len(issues) <= 2
LeniencyLimit == 2

\* a variant that tolerates one issue fewer
AcceptedByPolicy_one_fewer(iss) ==
    \/ Len(iss) = 0
    \/ Len(iss) < LeniencyLimit /\ ~MentionsMissingRequiredSection(iss)

\* a variant that forgets the limit on the number of issues
AcceptedByPolicy_no_limit(iss) ==
    \/ Len(iss) = 0
    \/ ~MentionsMissingRequiredSection(iss)

\* is_valid after "still consider it valid if only minor issues"
AcceptedByPolicy(iss) ==
    \/ Len(iss) = 0
    \/ Len(iss) <= LeniencyLimit /\ ~MentionsMissingRequiredSection(iss)

-----------------------------------------------------------------------------
(* Remote resolution: get_repo_contents and get_file_path_in_repo *)

\* the path  a/b/name  as a sequence of names
PathOf(dir, name) == dir \o <<name>>

PathIsFile(t, path) ==
    /\ path # <<>>
    /\ IsFile(t, SubSeq(path, 1, Len(path) - 1), path[Len(path)])

PathIsDir(t, path) ==
    \/ path = <<>>
    \/ \E e \in t : e.dir = path
    \/ /\ path # <<>>
       /\ [dir |-> SubSeq(path, 1, Len(path) - 1), name |-> path[Len(path)],
           type |-> "dir"] \in t

\* the entries of a directory as the contents API lists them
Listing(t, path) ==
    {[name |-> e.name, type |-> e.type] : e \in {x \in t : x.dir = path}}

EmptyList == [list |-> TRUE, items |-> {}]

\* the statuses the server can answer a contents request with: it may
\* throttle any request (403, 429), otherwise 200 for a path of the tree
\* and 404 for any other
ResponseStatuses(t, path) ==
    {403, 429} \cup
    (IF PathIsFile(t, path) \/ PathIsDir(t, path) THEN {200} ELSE {404})

\* get_repo_contents: response.json() for a 2xx response (a list for a
\* directory, a single object for a file), [] when raise_for_status raises
get_repo_contents(t, path, status) ==
    IF status # 200 THEN EmptyList
    ELSE IF PathIsFile(t, path) THEN [list |-> FALSE, items |-> {}]
    ELSE [list |-> TRUE, items |-> Listing(t, path)]

\* isinstance(contents, list) and any(item name == filename and type == 'file')
ListsFile(contents, filename) ==
    /\ contents.list
    /\ [name |-> filename, type |-> "file"] \in contents.items

\* the candidate paths of get_file_path_in_repo, in the order tried
RemoteCandidates(folder_path, filename) ==
    << [dir |-> folder_path, name |-> filename],
       [dir |-> folder_path \o <<"data">>, name |-> filename] >>

-----------------------------------------------------------------------------
(* process_inp_file_parallel (dialect A) and process_inp_file (dialect B) *)

InpName == "model.inp"

\* a variant that goes on to the validator with files missing
HasMissing_ignored(missing) == FALSE

\* if missing_files:
HasMissing(missing) == missing # {}

Rejected(reason) == [ok |-> FALSE, reason |-> reason]

Accepted == [ok |-> TRUE, reason |-> ""]

Pending == [ok |-> FALSE, reason |-> "pending"]

\* with counter_lock: processed_count += 1   (dialect A only)
Counted == IF dialect = "A" THEN processed_count + 1 ELSE processed_count

Return(r) ==
    /\ result' = r
    /\ pc' = "done"
    /\ processed_count' = Counted

\* reading the document succeeds; the references are extracted
ReadOk ==
    /\ pc = "read"
    /\ content' = source
    /\ external_files' =
          (IF dialect = "A" THEN parse_swmm_for_external_files(source)
           ELSE parse_inp_for_external_files(source))
    /\ todo' = external_files'
    /\ pc' = "resolve"
    /\ UNCHANGED <<batchvars, lintvars, toolvars>>
    /\ UNCHANGED <<dialect, folder, tree, source, cand, cur, found_files,
                   missing_files, issues, is_valid, validate_calls, tocopy,
                   output, result, processed_count, last_request,
                   last_status, last_listing, throttled, clock>>

\* read_text raises (A: reason read_error); the download fails (B: no reason)
ReadFail ==
    /\ pc = "read"
    /\ Return(IF dialect = "A" THEN Rejected("read_error") ELSE Rejected(""))
    /\ UNCHANGED <<batchvars, lintvars, toolvars>>
    /\ UNCHANGED <<dialect, folder, tree, source, content, external_files,
                   todo, cand, cur, found_files, missing_files, issues,
                   is_valid, validate_calls, tocopy, output, last_request,
                   last_status, last_listing, throttled, clock>>

\* dialect A: the loop over external_files with find_external_file_local
ResolveLocal ==
    /\ pc = "resolve"
    /\ dialect = "A"
    /\ LET loc(f) == find_external_file_local(tree, folder, f)
           found == {f \in external_files : loc(f) # NoPath}
       IN  /\ found_files' = [f \in found |-> loc(f)]
           /\ missing_files' = external_files \ found
           /\ todo' = {}
           /\ IF HasMissing(missing_files')
              THEN Return(Rejected("missing_external_files"))
              ELSE /\ pc' = "validate"
                   /\ UNCHANGED <<result, processed_count>>
    /\ UNCHANGED <<batchvars, lintvars, toolvars>>
    /\ UNCHANGED <<dialect, folder, tree, source, content, external_files,
                   cand, cur, issues, is_valid, validate_calls, tocopy,
                   output, last_request, last_status, last_listing,
                   throttled, clock>>

\* dialect B: one listing request of get_file_path_in_repo for a reference
ResolveRemote ==
    /\ pc = "resolve"
    /\ dialect = "B"
    /\ todo # {}
    /\ \E f \in todo :
         /\ cur \in {"", f}
         /\ LET c == RemoteCandidates(folder, f)[cand]
                path == PathOf(c.dir, c.name)
            IN  \E status \in ResponseStatuses(tree, path) :
                  LET contents == get_repo_contents(tree, path, status)
                  IN  /\ last_request' = path
                      /\ last_status' = status
                      /\ last_listing' = contents
                      /\ throttled' = IF status \in {403, 429}
                                      THEN throttled \cup {f} ELSE throttled
                      /\ IF ListsFile(contents, f)
                         THEN /\ found_files' =
                                    [x \in DOMAIN found_files \cup {f} |->
                                        IF x = f THEN c ELSE found_files[x]]
                              /\ todo' = todo \ {f}
                              /\ cur' = ""
                              /\ cand' = 1
                              /\ UNCHANGED missing_files
                         ELSE IF cand < Len(RemoteCandidates(folder, f))
                         THEN /\ cand' = cand + 1
                              /\ cur' = f
                              /\ UNCHANGED <<found_files, todo, missing_files>>
                         ELSE /\ missing_files' = missing_files \cup {f}
                              /\ todo' = todo \ {f}
                              /\ cur' = ""
                              /\ cand' = 1
                              /\ UNCHANGED found_files
    /\ UNCHANGED <<batchvars, lintvars, toolvars>>
    /\ UNCHANGED <<dialect, folder, tree, source, pc, content, external_files,
                   issues, is_valid, validate_calls, tocopy, output, result,
                   processed_count, clock>>

\* dialect B: the loop is over; missing files reject the document
ResolveRemoteDone ==
    /\ pc = "resolve"
    /\ dialect = "B"
    /\ todo = {}
    /\ IF HasMissing(missing_files)
       THEN Return(Rejected("missing_external_files"))
       ELSE /\ pc' = "validate"
            /\ UNCHANGED <<result, processed_count>>
    /\ UNCHANGED <<batchvars, lintvars, toolvars>>
    /\ UNCHANGED <<dialect, folder, tree, source, content, external_files,
                   todo, cand, cur, found_files, missing_files, issues,
                   is_valid, validate_calls, tocopy, output, last_request,
                   last_status, last_listing, throttled, clock>>

\* the validator and the leniency rule
Validate ==
    /\ pc = "validate"
    /\ issues' = (IF dialect = "A" THEN validate_swmm_file(content)
                  ELSE validate_inp_file(content))
    /\ validate_calls' = validate_calls + 1
    /\ is_valid' = AcceptedByPolicy(issues')
    /\ IF ~is_valid'
       THEN Return(Rejected("validation_failed"))
       ELSE /\ pc' = "copy_inp"
            /\ UNCHANGED <<result, processed_count>>
    /\ UNCHANGED <<batchvars, lintvars, toolvars>>
    /\ UNCHANGED <<dialect, folder, tree, source, content, external_files,
                   todo, cand, cur, found_files, missing_files, tocopy,
                   output, last_request, last_status, last_listing,
                   throttled, clock>>

\* the document is staged: shutil.copy2 (A), download_file (B)
CopyInpOk ==
    /\ pc = "copy_inp"
    /\ output' = output \cup {[dir |-> folder, name |-> InpName]}
    /\ tocopy' = DOMAIN found_files
    /\ pc' = "copy_ext"
    /\ UNCHANGED <<batchvars, lintvars, toolvars>>
    /\ UNCHANGED <<dialect, folder, tree, source, content, external_files,
                   todo, cand, cur, found_files, missing_files, issues,
                   is_valid, validate_calls, result, processed_count,
                   last_request, last_status, last_listing, throttled, clock>>

\* staging the document fails
CopyInpFail ==
    /\ pc = "copy_inp"
    /\ Return(IF dialect = "A" THEN Rejected("copy_failed")
              ELSE Rejected("download_failed"))
    /\ UNCHANGED <<batchvars, lintvars, toolvars>>
    /\ UNCHANGED <<dialect, folder, tree, source, content, external_files,
                   todo, cand, cur, found_files, missing_files, issues,
                   is_valid, validate_calls, tocopy, output, last_request,
                   last_status, last_listing, throttled, clock>>

\* one resolved external file is staged beside the document
CopyExtOk ==
    /\ pc = "copy_ext"
    /\ \E f \in tocopy :
         /\ output' = output \cup {[dir |-> folder, name |-> f]}
         /\ tocopy' = tocopy \ {f}
    /\ UNCHANGED <<batchvars, lintvars, toolvars>>
    /\ UNCHANGED <<dialect, folder, tree, source, pc, content, external_files,
                   todo, cand, cur, found_files, missing_files, issues,
                   is_valid, validate_calls, result, processed_count,
                   last_request, last_status, last_listing, throttled, clock>>

\* staging one external file fails: A returns copy_failed, B only prints a
\* warning and goes on
CopyExtFail ==
    /\ pc = "copy_ext"
    /\ \E f \in tocopy :
         IF dialect = "A"
         THEN /\ Return(Rejected("copy_failed"))
              /\ UNCHANGED tocopy
         ELSE /\ tocopy' = tocopy \ {f}
              /\ UNCHANGED <<pc, result, processed_count>>
    /\ UNCHANGED <<batchvars, lintvars, toolvars>>
    /\ UNCHANGED <<dialect, folder, tree, source, content, external_files,
                   todo, cand, cur, found_files, missing_files, issues,
                   is_valid, validate_calls, output, last_request,
                   last_status, last_listing, throttled, clock>>

\* everything is staged: return True
ReturnAccepted ==
    /\ pc = "copy_ext"
    /\ tocopy = {}
    /\ Return(Accepted)
    /\ UNCHANGED <<batchvars, lintvars, toolvars>>
    /\ UNCHANGED <<dialect, folder, tree, source, content, external_files,
                   todo, cand, cur, found_files, missing_files, issues,
                   is_valid, validate_calls, tocopy, output, last_request,
                   last_status, last_listing, throttled, clock>>

Next ==
    \/ ReadOk
    \/ ReadFail
    \/ ResolveLocal
    \/ ResolveRemote
    \/ ResolveRemoteDone
    \/ Validate
    \/ CopyInpOk
    \/ CopyInpFail
    \/ CopyExtOk
    \/ CopyExtFail
    \/ ReturnAccepted

-----------------------------------------------------------------------------
(* Documents and repository trees the runs start from *)

\* longest run of body lines of a document of the validation family
MaxBodyLines == 3

\* longest document of the reference-extraction family
MaxParseLines == 3

\* all sequences over alphabet of length at most n
RECURSIVE SeqsUpTo(_, _)
SeqsUpTo(alphabet, n) ==
    IF n = 0 THEN {<<>>}
    ELSE LET shorter == SeqsUpTo(alphabet, n - 1)
         IN  shorter \cup {Append(x, a) : x \in shorter, a \in alphabet}

Header(name) == <<name>>

FileLine(target) == <<"RG1", "FILE", target>>

\* dialect A documents for the validator: a prelude of headers, then body lines
PreludesA ==
    { <<>>,
      <<Header("[OPTIONS]")>>,
      <<Header("[OPTIONS]"), Header("[SUBCATCHMENTS]")>>,
      <<Header("[OPTIONS]"), Header("[JUNCTIONS]")>>,
      <<Header("[JUNCTIONS]")>> }

BodyA ==
    { Header("[INFILTRATION]"),
      <<"S1", "3.0", "0.5", "1.5">>,
      FileLine("\"D:\\rain.dat\""),
      FileLine("rain.dat") }

\* dialect B documents for the validator
PreludesB ==
    { <<>>,
      <<Header("[JUNCTIONS]"), Header("[PIPES]")>>,
      <<Header("[RESERVOIRS]"), Header("[JUNCTIONS]"), Header("[PIPES]")>>,
      <<Header("[TANKS]"), Header("[JUNCTIONS]"), <<"J1", "0", "0">>,
        Header("[PIPES]")>> }

BodyB ==
    { <<"P1", "J1", "J2", "100">>,
      <<";J9", "closed">>,
      FileLine("\"D:\\rain.dat\""),
      FileLine("rain.dat") }

ValidationDocs(d) ==
    IF d = "A"
    THEN {Text(p \o b) : p \in PreludesA, b \in SeqsUpTo(BodyA, MaxBodyLines)}
    ELSE {Text(p \o b) : p \in PreludesB, b \in SeqsUpTo(BodyB, MaxBodyLines)}

\* documents for reference extraction: FILE lines in and out of [BACKDROP]
ParseLines ==
    { Header("[BACKDROP]"),
      Header("[backdrop]"),
      <<IND, "[BACKDROP]">>,
      Header("[OPTIONS]"),
      FileLine("rain.dat"),
      FileLine("\"rain.dat\""),
      FileLine("/opt/rain.dat"),
      FileLine("\"/opt/rain.dat\""),
      FileLine("\"D:\\rain.dat\"") }

ParseDocs == {Text(x) : x \in SeqsUpTo(ParseLines, MaxParseLines)}

\* documents for resolution: valid in both dialects, with 0, 1 or 2 references
ValidTail ==
    <<Header("[OPTIONS]"), Header("[TANKS]"), Header("[JUNCTIONS]"),
      Header("[PIPES]")>>

ResolveDocs ==
    { Text(ValidTail),
      Text(<<FileLine("rain.dat")>> \o ValidTail),
      Text(<<FileLine("rain.dat"), FileLine("flow.dat")>> \o ValidTail) }

ProjDir == <<"proj">>

FileEntry(dir, name) == [dir |-> dir, name |-> name, type |-> "file"]

\* places where a file may lie in the repository
TreeEntries ==
    { FileEntry(<<"proj">>, "rain.dat"),
      FileEntry(<<"proj", "data">>, "rain.dat"),
      FileEntry(<<"DataFiles">>, "rain.dat"),
      FileEntry(<<"other">>, "rain.dat"),
      FileEntry(<<>>, "rain.dat"),
      FileEntry(<<"data">>, "rain.dat"),
      FileEntry(<<"proj", "rain.dat">>, "rain.dat"),
      FileEntry(<<"proj">>, "flow.dat") }

\* no path is a file and a directory at once
WellFormedTree(t) ==
    \A e \in t : ~\E x \in t : x.dir = PathOf(e.dir, e.name)

Trees == {t \in SUBSET TreeEntries : WellFormedTree(t)}

SmallTrees == { {}, {FileEntry(<<"proj">>, "rain.dat")} }

InitLocals ==
    /\ pc = "read"
    /\ content = <<>>
    /\ external_files = {}
    /\ todo = {}
    /\ cand = 1
    /\ cur = ""
    /\ found_files = <<>>
    /\ missing_files = {}
    /\ issues = <<>>
    /\ is_valid = FALSE
    /\ validate_calls = 0
    /\ tocopy = {}
    /\ output = {}
    /\ result = Pending
    /\ processed_count = 0
    /\ last_request = <<>>
    /\ last_status = 0
    /\ last_listing = EmptyList
    /\ throttled = {}
    /\ clock = 0

InitValidation ==
    /\ dialect \in {"A", "B"}
    /\ folder = ProjDir
    /\ tree \in SmallTrees
    /\ source \in ValidationDocs(dialect)

InitParse ==
    /\ dialect \in {"A", "B"}
    /\ folder = ProjDir
    /\ tree \in SmallTrees
    /\ source \in ParseDocs

InitResolve ==
    /\ dialect \in {"A", "B"}
    /\ folder \in {ProjDir, <<>>}
    /\ tree \in Trees
    /\ source \in ResolveDocs

\* no batch is running
BatchIdle ==
    /\ corpus = <<>>
    /\ run = 0
    /\ mainpc = "idle"
    /\ inp_files = {}
    /\ wpc = <<>>
    /\ wres = <<>>
    /\ wtmp = <<>>
    /\ lock = 0
    /\ valid_files = <<>>
    /\ invalid_files = <<>>
    /\ validated = {}
    /\ copied = {}
    /\ summaries = <<>>
    /\ in_lock = TRUE
    /\ reprocess_invalid = FALSE

\* validate_input was not run
LintIdle ==
    /\ sim_type = ""
    /\ lint_issues = <<>>

\* wait_for_completion has not been called
ClientIdle ==
    /\ wait_pc = "idle"
    /\ now = 0
    /\ start_time = 0
    /\ timeout = 0
    /\ interval = 0
    /\ sim = "None"
    /\ polls = <<>>
    /\ slept = 0
    /\ wait_result = "None"

\* run_batch has not been called
RunBatchIdle ==
    /\ rb_pc = "idle"
    /\ rb_inputs = 0
    /\ simulations = <<>>
    /\ completed = {}
    /\ rb_i = 0
    /\ rb_polled = 0
    /\ rb_summary = <<>>

\* a path at which no file exists
NoFile == [lines |-> <<>>, eol |-> TRUE, exists |-> FALSE]

\* copy_and_update_ini_file has not been called
IniIdle ==
    /\ ini_pc = "idle"
    /\ ini_source = NoFile
    /\ ini_copy = NoFile
    /\ ini_again = NoFile
    /\ ini_processed = FALSE

\* validate_swmm_file of validate_input.py is not being stepped through
ScanIdle ==
    /\ scan_pc = "idle"
    /\ scan_lines = <<>>
    /\ scan_i = 0
    /\ current_section = ""
    /\ section_order = <<>>
    /\ defined_timeseries = {}
    /\ scan_issues = <<>>

ToolsIdle ==
    /\ ClientIdle
    /\ RunBatchIdle
    /\ IniIdle
    /\ ScanIdle

Init ==
    /\ InitValidation \/ InitParse \/ InitResolve
    /\ InitLocals
    /\ BatchIdle
    /\ LintIdle
    /\ ToolsIdle

Spec == Init /\ [][Next]_vars

-----------------------------------------------------------------------------
(* Sections as the tokenizer of examples/validate_input.py sees them: a    *)
(* line is a header if, stripped, it starts with '[' and ends with ']'     *)

FirstOfLine(text, i) ==
    \/ AtLineStart(text, i)
    \/ i > 1 /\ text[i - 1] = IND /\ AtLineStart(text, i - 1)

LastOfLine(text, i) == i = Len(text) \/ text[i + 1] = NL

IsHeaderAt(text, i) ==
    /\ StartsWithBracket(text[i])
    /\ FirstOfLine(text, i)
    /\ LastOfLine(text, i)

\* current_section at position i: the upper-cased last header up to i
SectionAt(text, i) ==
    LET S == {h \in 1..i : IsHeaderAt(text, h)}
    IN  IF S = {} THEN ""
        ELSE Upper(text[CHOOSE h \in S : \A k \in S : k <= h])

HasSection(text, name) ==
    \E i \in 1..Len(text) : IsHeaderAt(text, i) /\ Upper(text[i]) = name

-----------------------------------------------------------------------------
(* Claims *)

Staged(name) == [dir |-> folder, name |-> name] \in output

\* the issues the specification types missing_section: a required section,
\* the model elements of dialect A or the fixed-grade nodes of dialect B
IsMissingSectionIssue(i) ==
    i.msg \in {"Missing required section", "Missing model elements",
               "No tanks or reservoirs found"}

NoMissingSectionIssue ==
    \A i \in 1..Len(issues) : ~IsMissingSectionIssue(issues[i])

\* C1: a document without missing external files whose validator returned 1
\* or 2 issues, none of them a missing-section issue, passes the validator
\* (is_valid), is never rejected with validation_failed, goes on to staging,
\* and is accepted with its input file staged unless a copy fails.
C1_LeniencyAccepts ==
    (validate_calls = 1 /\ Len(issues) \in 1..2 /\ NoMissingSectionIssue)
    => /\ is_valid
       /\ pc \in {"copy_inp", "copy_ext", "done"}
       /\ result.reason # "validation_failed"
       /\ (pc = "done" =>
             \/ result = Accepted /\ Staged(InpName)
             \/ result.reason \in {"copy_failed", "download_failed"})

C1_Witness ==
    /\ pc = "done"
    /\ validate_calls = 1
    /\ Len(issues) = 2
    /\ NoMissingSectionIssue
    /\ result = Accepted
    /\ Staged(InpName)

\* the document has none of the sections SUBCATCHMENTS, JUNCTIONS, CONDUITS,
\* STORAGE
LacksModelSections(text) ==
    /\ ~HasSection(text, "[SUBCATCHMENTS]")
    /\ ~HasSection(text, "[JUNCTIONS]")
    /\ ~HasSection(text, "[CONDUITS]")
    /\ ~HasSection(text, "[STORAGE]")

\* C2: every validated dialect-A document without a SUBCATCHMENTS section
\* and without any JUNCTIONS, CONDUITS or STORAGE section ends rejected, with
\* a missing-section issue among its issues, whatever the number of issues.
C2_NoModelSectionsRejected ==
    (dialect = "A" /\ pc = "done" /\ validate_calls = 1
        /\ LacksModelSections(content))
    => /\ ~result.ok
       /\ \E i \in 1..Len(issues) : IsMissingSectionIssue(issues[i])

\* C3: a document whose validator returned 3 or more issues is rejected
\* with reason validation_failed, whatever the issues are, and nothing of it
\* is staged.
C3_ThreeIssuesRejected ==
    (validate_calls = 1 /\ Len(issues) >= 3)
    => /\ ~is_valid
       /\ pc = "done"
       /\ result = Rejected("validation_failed")
       /\ output = {}

C3_Witness ==
    /\ validate_calls = 1
    /\ Len(issues) = 3
    /\ NoMissingSectionIssue
    /\ result = Rejected("validation_failed")

\* C4: once a reference of the document could not be resolved, the
\* validator is never invoked, nothing is staged, and the document ends
\* rejected with reason missing_external_files.
C4_MissingExternalRejects ==
    missing_files # {}
    => /\ validate_calls = 0
       /\ issues = <<>>
       /\ output = {}
       /\ pc \in {"resolve", "done"}
       /\ (pc = "done" => result = Rejected("missing_external_files"))

C4_Witness ==
    /\ pc = "done"
    /\ missing_files # {}
    /\ DOMAIN found_files # {}
    /\ result = Rejected("missing_external_files")

\* C5: local resolution returns the file of the document's own folder if
\* there is one, otherwise the one of the data subfolder, otherwise the one
\* of the root DataFiles folder; a file that is in none of the three is
\* not found and the document is rejected with missing_external_files.
C5_LocalPriority ==
    (dialect = "A" /\ pc \notin {"read", "resolve"})
    => \A f \in external_files :
         LET own == IsFile(tree, folder, f)
             data == IsFile(tree, folder \o <<"data">>, f)
             shared == IsFile(tree, <<"DataFiles">>, f)
             at(dir) == /\ f \in DOMAIN found_files
                        /\ found_files[f] = [dir |-> dir, name |-> f]
         IN  /\ own => at(folder)
             /\ (~own /\ data) => at(folder \o <<"data">>)
             /\ (~own /\ ~data /\ shared) => at(<<"DataFiles">>)
             /\ (~own /\ ~data /\ ~shared) =>
                   /\ f \in missing_files
                   /\ f \notin DOMAIN found_files
                   /\ pc = "done"
                   /\ result = Rejected("missing_external_files")

C5_Witness ==
    /\ dialect = "A"
    /\ pc = "done"
    /\ result = Accepted
    /\ \E f \in external_files :
         /\ ~IsFile(tree, folder, f)
         /\ IsFile(tree, folder \o <<"data">>, f)
         /\ IsFile(tree, <<"DataFiles">>, f)
         /\ FileEntry(<<"other">>, f) \in tree
         /\ found_files[f].dir = folder \o <<"data">>
         /\ Staged(f)

\* the word a FILE match at position i points to
TargetAt(text, i) == text[NextWord(text, i)]

\* the path a target names: the text between its quotes if it is quoted
PathNamed(w) == IF IsQuoted(w) THEN Inner(w) ELSE w

\* drive-letter-colon-backslash, or a leading '/'
NamesAbsolutePath(w) ==
    StartsWithSlash(PathNamed(w)) \/ HasColonBackslash(PathNamed(w))

\* C6: for a FILE reference outside [BACKDROP] whose relative target is
\* quoted, the references to resolve hold the path between the quotes and
\* not the word with its quotes; and a dialect-A document all of whose
\* references are of that kind, each naming a file of the document's own
\* folder, is not rejected with missing_external_files.
C6_QuotedTargetUnquoted ==
    pc # "read"
    => LET quoted == {i \in FileMatches(content) :
                         /\ IsQuoted(TargetAt(content, i))
                         /\ ~NamesAbsolutePath(TargetAt(content, i))
                         /\ ~InBackdropSpan(content, i)}
       IN  /\ \A i \in quoted :
                /\ Inner(TargetAt(content, i)) \in external_files
                /\ TargetAt(content, i) \notin external_files
           /\ (/\ dialect = "A"
               /\ quoted = FileMatches(content)
               /\ \A i \in quoted :
                    IsFile(tree, folder, Inner(TargetAt(content, i))))
              => result.reason # "missing_external_files"

\* C7: a FILE reference whose target names an absolute path, quoted or
\* not, is never among the references to resolve and never among the
\* missing files.
C7_AbsoluteNeverResolved ==
    /\ \A w \in external_files : ~NamesAbsolutePath(w)
    /\ \A w \in missing_files : ~NamesAbsolutePath(w)

\* position i lies in a [BACKDROP] section: the last header up to i is one
InBackdropSection(text, i) == SectionAt(text, i) = "[BACKDROP]"

\* C8: every reference to resolve is captured at a FILE match that lies
\* outside every [BACKDROP] section, so a document whose FILE references
\* all lie inside [BACKDROP] sections has nothing to resolve and is never
\* rejected with missing_external_files.
C8_BackdropNeverExtracted ==
    pc # "read"
    => /\ external_files \subseteq
             {c.path : c \in {x \in QuotedCaptures(content)
                                      \cup BareCaptures(content) :
                                 ~InBackdropSection(content, x.at)}}
       /\ (\A i \in FileMatches(content) : InBackdropSection(content, i))
             => result.reason # "missing_external_files"

\* the listing request for reference f at some candidate location finds it
\* when the server does not throttle
ListedRemotely(f) ==
    \E k \in 1..Len(RemoteCandidates(folder, f)) :
       LET c == RemoteCandidates(folder, f)[k]
       IN  ListsFile(get_repo_contents(tree, PathOf(c.dir, c.name), 200), f)

\* C9: get_repo_contents never returns on a throttled response (403, 429):
\* the listing it returned last was not made from one, and a reference the
\* unthrottled listings find is never declared missing.
C9_ThrottledNeverEmpty ==
    /\ last_status \notin {403, 429}
    /\ \A f \in missing_files : ~ListedRemotely(f)

\* C10: for every reference the remote resolver has decided without being
\* throttled, the outcome is the one of local resolution on the same tree:
\* found at the same location, or not found.
C10_RemoteMatchesLocal ==
    dialect = "B"
    => \A f \in (external_files \ todo) \ throttled :
         LET l == find_external_file_local(tree, folder, f)
         IN  IF l = NoPath
             THEN f \in missing_files
             ELSE f \in DOMAIN found_files /\ found_files[f] = l

\* staging was attempted for the document and some file of it is not staged
StagingFailed ==
    /\ pc = "done"
    /\ is_valid
    /\ \/ ~Staged(InpName)
       \/ \E f \in DOMAIN found_files : ~Staged(f)

\* C12: a document for which staging of the input file or of any resolved
\* external file failed ends rejected with the staging-failure reason
\* (copy_failed; the remote dialect names it download_failed), never
\* accepted; and no step removes a staged file from the output corpus.
C12_StagingFailureRejects ==
    /\ [](StagingFailed =>
            /\ ~result.ok
            /\ result.reason \in {"copy_failed", "download_failed"})
    /\ [][output \subseteq output']_vars

-----------------------------------------------------------------------------
(* The batch: main of download_swmm_examples (a pool of worker threads)    *)
(* and main of download_epanet_examples (a sequential loop), run twice     *)
(* over the same repository                                                *)

\* number of documents in the repository
NumDocs == 2

Docs == 1..NumDocs

FolderNames == <<"a", "b", "c", "d">>

DocFolder(d) == <<FolderNames[d]>>

\* what a document of the batch can be: its text, the fault its processing
\* meets (none, an unreadable input, a target folder that cannot be made, a
\* copy of the input or of an external file that fails), and whether the
\* file it references lies in its folder
DocProfiles ==
    { [source |-> Text(ValidTail), fault |-> "none", present |-> FALSE],
      [source |-> Text(<<FileLine("rain.dat")>> \o ValidTail),
       fault |-> "none", present |-> TRUE],
      [source |-> Text(<<FileLine("rain.dat")>> \o ValidTail),
       fault |-> "none", present |-> FALSE],
      [source |-> Text(<<>>), fault |-> "none", present |-> FALSE],
      [source |-> Text(ValidTail), fault |-> "read", present |-> FALSE],
      [source |-> Text(ValidTail), fault |-> "mkdir", present |-> FALSE],
      [source |-> Text(ValidTail), fault |-> "copy_inp", present |-> FALSE],
      [source |-> Text(<<FileLine("rain.dat")>> \o ValidTail),
       fault |-> "copy_ext", present |-> TRUE] }

\* the repository tree of a corpus: the referenced files that are present
TreeOf(c) ==
    {FileEntry(DocFolder(d), "rain.dat") : d \in {x \in DOMAIN c : c[x].present}}

\* local_inp_path of a document
InpTarget(d) == [dir |-> DocFolder(d), name |-> InpName]

\* a variant that never skips a document
AlreadyStaged_never(out, d) == FALSE

\* if local_inp_path.exists(): skip
AlreadyStaged(out, d) == InpTarget(d) \in out

\* find_inp_files_local: the documents whose input file is not in the output
find_inp_files_local(out) == {d \in Docs : ~AlreadyStaged(out, d)}

\* find_inp_files: every document of the repository
find_inp_files == Docs

\* get_file_path_in_repo when no request is throttled
get_file_path_in_repo(t, folder_path, filename) ==
    LET cands == RemoteCandidates(folder_path, filename)
        hit(k) == ListsFile(get_repo_contents(t,
                      PathOf(cands[k].dir, cands[k].name),
                      IF PathIsFile(t, PathOf(cands[k].dir, cands[k].name))
                         \/ PathIsDir(t, PathOf(cands[k].dir, cands[k].name))
                      THEN 200 ELSE 404), filename)
        hits == {k \in 1..Len(cands) : hit(k)}
    IN  IF hits = {} THEN NoPath ELSE cands[MinOf(hits)]

\* the references of document d and where they are resolved
DocRefs(d) ==
    IF dialect = "A" THEN parse_swmm_for_external_files(corpus[d].source)
    ELSE parse_inp_for_external_files(corpus[d].source)

DocLocate(d, f) ==
    IF dialect = "A" THEN find_external_file_local(tree, DocFolder(d), f)
    ELSE get_file_path_in_repo(tree, DocFolder(d), f)

DocFound(d) == {f \in DocRefs(d) : DocLocate(d, f) # NoPath}

DocMissing(d) == DocRefs(d) \ DocFound(d)

DocIssues(d) ==
    IF dialect = "A" THEN validate_swmm_file(corpus[d].source)
    ELSE validate_inp_file(corpus[d].source)

\* the files staged beside the input file of d
ExtTargets(d) == {[dir |-> DocFolder(d), name |-> f] : f \in DocFound(d)}

InitBatch ==
    /\ dialect \in {"A", "B"}
    /\ corpus \in [Docs -> DocProfiles]
    /\ tree = TreeOf(corpus)
    /\ run = 1
    /\ mainpc = "find"
    /\ inp_files = {}
    /\ wpc = [d \in Docs |-> "idle"]
    /\ wres = [d \in Docs |-> ""]
    /\ wtmp = [d \in Docs |-> 0]
    /\ lock = 0
    /\ valid_files = <<>>
    /\ invalid_files = <<>>
    /\ validated = {}
    /\ copied = {}
    /\ summaries = <<>>
    /\ in_lock = TRUE
    /\ reprocess_invalid \in (IF dialect = "B" THEN BOOLEAN ELSE {FALSE})
    /\ output = {}
    /\ processed_count = 0
    \* no single-document run
    /\ folder = <<>>
    /\ source = <<>>
    /\ pc = "batch"
    /\ content = <<>>
    /\ external_files = {}
    /\ todo = {}
    /\ cand = 1
    /\ cur = ""
    /\ found_files = <<>>
    /\ missing_files = {}
    /\ issues = <<>>
    /\ is_valid = FALSE
    /\ validate_calls = 0
    /\ tocopy = {}
    /\ result = Pending
    /\ last_request = <<>>
    /\ last_status = 0
    /\ last_listing = EmptyList
    /\ throttled = {}
    /\ clock = 0
    /\ LintIdle
    /\ ToolsIdle

\* the variables of the single-document run, which a batch leaves alone
docrest == <<folder, source, pc, content, external_files, todo, cand, cur,
             found_files, missing_files, issues, is_valid, validate_calls,
             tocopy, result, last_request, last_status, last_listing,
             throttled, clock>>

fixed == <<docrest, lintvars, toolvars, dialect, tree, corpus,
           reprocess_invalid>>

\* main, step 2 (dialect A): find the documents not yet staged and submit
\* one task per document to the pool
Main_Find ==
    /\ mainpc = "find"
    /\ dialect = "A"
    /\ find_inp_files_local(output) # {}
    /\ inp_files' = find_inp_files_local(output)
    /\ wpc' = [d \in Docs |-> IF d \in inp_files' THEN "start" ELSE "skipped"]
    /\ wres' = [d \in Docs |-> ""]
    /\ wtmp' = [d \in Docs |-> 0]
    /\ mainpc' = "collect"
    /\ UNCHANGED <<fixed, run, lock, valid_files, invalid_files, validated,
                   copied, summaries, in_lock, output, processed_count>>

\* start of the next run of the script, or the end after the second
NextRun ==
    /\ run' = run + 1
    /\ mainpc' = IF run = 1 THEN "find" ELSE "end"
    /\ processed_count' = IF run = 1 THEN 0 ELSE processed_count
    /\ valid_files' = IF run = 1 THEN <<>> ELSE valid_files
    /\ invalid_files' = IF run = 1 THEN <<>> ELSE invalid_files

\* main: total_files == 0, "All files have already been validated", return
Main_FindNone ==
    /\ mainpc = "find"
    /\ dialect = "A"
    /\ find_inp_files_local(output) = {}
    /\ inp_files' = {}
    /\ wpc' = [d \in Docs |-> "skipped"]
    /\ NextRun
    /\ UNCHANGED <<fixed, wres, wtmp, lock, validated, copied, summaries,
                   in_lock, output>>

\* the reason a worker returns before staging, "" if it goes on to staging
PreStagingReason(d) ==
    IF corpus[d].fault = "read"
    THEN (IF dialect = "A" THEN "read_error" ELSE "")
    ELSE IF HasMissing(DocMissing(d)) THEN "missing_external_files"
    ELSE IF ~AcceptedByPolicy(DocIssues(d)) THEN "validation_failed"
    ELSE ""

\* the document reaches the validator
ReachesValidator(d) ==
    corpus[d].fault # "read" /\ ~HasMissing(DocMissing(d))

\* worker: read, extract, resolve, validate (lines 278-325)
W_Process(d) ==
    /\ dialect = "A"
    /\ wpc[d] = "start"
    /\ validated' = IF ReachesValidator(d)
                    THEN validated \cup {<<run, d>>} ELSE validated
    /\ IF corpus[d].fault = "read" \/ PreStagingReason(d) # ""
       THEN /\ wres' = [wres EXCEPT ![d] = PreStagingReason(d)]
            /\ wpc' = [wpc EXCEPT ![d] = "acquire"]
       ELSE /\ wpc' = [wpc EXCEPT ![d] = "stage"]
            /\ UNCHANGED wres
    /\ UNCHANGED <<fixed, run, mainpc, inp_files, wtmp, lock, valid_files,
                   invalid_files, copied, summaries, in_lock, output,
                   processed_count>>

\* the files a staging attempt of d copies before it stops
StagedBy(d) ==
    CASE corpus[d].fault \in {"mkdir", "copy_inp"} -> {}
      [] corpus[d].fault = "copy_ext" /\ DocFound(d) # {} -> {InpTarget(d)}
      [] OTHER -> {InpTarget(d)} \cup ExtTargets(d)

\* worker: make the target folder, copy the input and the external files
\* (lines 327-339); mkdir is outside the try, so its exception leaves the
\* worker; a failing copy is caught and gives copy_failed
W_Stage(d) ==
    /\ dialect = "A"
    /\ wpc[d] = "stage"
    /\ output' = output \cup StagedBy(d)
    /\ copied' = copied \cup {<<run, f>> : f \in StagedBy(d)}
    /\ IF corpus[d].fault = "mkdir"
       THEN /\ wpc' = [wpc EXCEPT ![d] = "raised"]
            /\ UNCHANGED wres
       ELSE /\ wpc' = [wpc EXCEPT ![d] = "acquire"]
            /\ wres' = [wres EXCEPT ![d] =
                           IF StagedBy(d) = {InpTarget(d)} \cup ExtTargets(d)
                           THEN "" ELSE "copy_failed"]
    /\ UNCHANGED <<fixed, run, mainpc, inp_files, wtmp, lock, valid_files,
                   invalid_files, validated, summaries, in_lock,
                   processed_count>>

\* a variant that enters the critical section without waiting
LockFree_always(l) == TRUE

\* with counter_lock: the lock can be taken when nobody holds it
LockFree(l) == l = 0

\* worker: with counter_lock (entry)
W_Acquire(d) ==
    /\ wpc[d] = "acquire"
    /\ LockFree(lock)
    /\ lock' = d
    /\ wpc' = [wpc EXCEPT ![d] = "load"]
    /\ UNCHANGED <<fixed, run, mainpc, inp_files, wres, wtmp, valid_files,
                   invalid_files, validated, copied, summaries, in_lock,
                   output, processed_count>>

\* worker: processed_count += 1, the read
W_Load(d) ==
    /\ wpc[d] = "load"
    /\ wtmp' = [wtmp EXCEPT ![d] = processed_count]
    /\ wpc' = [wpc EXCEPT ![d] = "store"]
    /\ UNCHANGED <<fixed, run, mainpc, inp_files, wres, lock, valid_files,
                   invalid_files, validated, copied, summaries, in_lock,
                   output, processed_count>>

\* worker: processed_count += 1, the write
W_Store(d) ==
    /\ wpc[d] = "store"
    /\ processed_count' = wtmp[d] + 1
    /\ in_lock' = (in_lock /\ lock = d)
    /\ wpc' = [wpc EXCEPT ![d] = "release"]
    /\ UNCHANGED <<fixed, run, mainpc, inp_files, wres, wtmp, lock,
                   valid_files, invalid_files, validated, copied, summaries,
                   output>>

\* worker: the lock is released and the function returns
W_Release(d) ==
    /\ wpc[d] = "release"
    /\ lock' = IF lock = d THEN 0 ELSE lock
    /\ wpc' = [wpc EXCEPT ![d] = "returned"]
    /\ UNCHANGED <<fixed, run, mainpc, inp_files, wres, wtmp, valid_files,
                   invalid_files, validated, copied, summaries, in_lock,
                   output, processed_count>>

Entry(d, reason) == [doc |-> d, reason |-> reason]

\* main: as_completed yields the future of d; future.result() returns the
\* worker's result or raises its exception (lines 399-420)
Main_Collect(d) ==
    /\ mainpc = "collect"
    /\ dialect = "A"
    /\ wpc[d] \in {"returned", "raised"}
    /\ IF wpc[d] = "returned" /\ wres[d] = ""
       THEN /\ valid_files' = Append(valid_files, Entry(d, ""))
            /\ UNCHANGED invalid_files
       ELSE /\ invalid_files' = Append(invalid_files,
                   Entry(d, IF wpc[d] = "raised" THEN "exception" ELSE wres[d]))
            /\ UNCHANGED valid_files
    /\ wpc' = [wpc EXCEPT ![d] = "collected"]
    /\ UNCHANGED <<fixed, run, mainpc, inp_files, wres, wtmp, lock, validated,
                   copied, summaries, in_lock, output, processed_count>>

\* dialect B: --reprocess-invalid was given and an earlier run left a
\* summary
Reprocessing == dialect = "B" /\ reprocess_invalid /\ summaries # <<>>

\* the summary the run reads: the one the run before it wrote
OldSummary == summaries[Len(summaries)]

\* the documents the earlier summary lists as rejected for missing
\* external files
ReprocessList(summary) ==
    {summary.invalid_files[k].doc :
        k \in {j \in 1..Len(summary.invalid_files) :
                  summary.invalid_files[j].reason = "missing_external_files"}}

\* files_to_process of dialect B: every document the repository lists,
\* whatever is staged, or the documents to process again
files_to_process ==
    IF Reprocessing THEN ReprocessList(OldSummary) ELSE find_inp_files

\* dialect B: the files to process are found; when re-processing, the
\* valid files of the earlier summary are kept
B_Find ==
    /\ mainpc = "find"
    /\ dialect = "B"
    /\ files_to_process # {}
    /\ inp_files' = files_to_process
    /\ wpc' = [d \in Docs |-> IF d \in files_to_process THEN "start"
                               ELSE "skipped"]
    /\ valid_files' = IF Reprocessing THEN OldSummary.valid_files ELSE <<>>
    /\ invalid_files' = <<>>
    /\ mainpc' = "collect"
    /\ UNCHANGED <<fixed, run, wres, wtmp, lock, validated, copied, summaries,
                   in_lock, output, processed_count>>

\* dialect B: "No files to process!", return
B_FindNone ==
    /\ mainpc = "find"
    /\ dialect = "B"
    /\ files_to_process = {}
    /\ inp_files' = {}
    /\ wpc' = [d \in Docs |-> "skipped"]
    /\ NextRun
    /\ UNCHANGED <<fixed, wres, wtmp, lock, validated, copied, summaries,
                   in_lock, output>>

\* any(vf.get('folder') == folder_path and vf.get('filename') == filename
\*     for vf in existing_valid)
already_valid(d) ==
    /\ Reprocessing
    /\ \E k \in 1..Len(OldSummary.valid_files) :
          OldSummary.valid_files[k].doc = d

\* what process_inp_file returns for d: ok, the reason ("" when the info
\* holds none), and whether it raises instead
B_Result(d) ==
    IF PreStagingReason(d) # "" \/ corpus[d].fault = "read"
    THEN [ok |-> FALSE, reason |-> PreStagingReason(d), raises |-> FALSE]
    ELSE IF corpus[d].fault = "mkdir"
    THEN [ok |-> FALSE, reason |-> "", raises |-> TRUE]
    ELSE IF corpus[d].fault = "copy_inp"
    THEN [ok |-> FALSE, reason |-> "download_failed", raises |-> FALSE]
    ELSE [ok |-> TRUE, reason |-> "", raises |-> FALSE]

\* dialect B: one iteration of the loop of main (lines 340-354); an
\* exception of process_inp_file is not caught and ends main
B_Process(d) ==
    /\ mainpc = "collect"
    /\ dialect = "B"
    /\ wpc[d] = "start"
    /\ \A e \in inp_files : e < d => wpc[e] = "collected"
    /\ IF already_valid(d)
       THEN \* "Skipping (already valid)", continue
            /\ wpc' = [wpc EXCEPT ![d] = "collected"]
            /\ UNCHANGED <<mainpc, valid_files, invalid_files, validated,
                           copied, output>>
       ELSE /\ validated' = IF ReachesValidator(d)
                            THEN validated \cup {<<run, d>>} ELSE validated
            /\ LET r == B_Result(d)
                   new == IF r.ok THEN StagedBy(d) ELSE {}
               IN  /\ output' = output \cup new
                   /\ copied' = copied \cup {<<run, f>> : f \in new}
                   /\ IF r.raises
                      THEN /\ mainpc' = "aborted"
                           /\ wpc' = [wpc EXCEPT ![d] = "raised"]
                           /\ UNCHANGED <<valid_files, invalid_files>>
                      ELSE /\ mainpc' = mainpc
                           /\ wpc' = [wpc EXCEPT ![d] = "collected"]
                           /\ IF r.ok
                              THEN /\ valid_files' =
                                         Append(valid_files, Entry(d, ""))
                                   /\ UNCHANGED invalid_files
                              ELSE /\ invalid_files' =
                                         Append(invalid_files,
                                                Entry(d, r.reason))
                                   /\ UNCHANGED valid_files
    /\ UNCHANGED <<fixed, run, inp_files, wres, wtmp, lock, summaries,
                   in_lock, processed_count>>

\* main: every submitted document is collected; the summary is written
Main_Finish ==
    /\ mainpc = "collect"
    /\ \A d \in inp_files : wpc[d] = "collected"
    /\ summaries' = Append(summaries,
          [total |-> IF Reprocessing THEN OldSummary.total
                     ELSE Cardinality(inp_files),
           valid |-> Len(valid_files),
           invalid |-> Len(invalid_files),
           valid_files |-> valid_files,
           invalid_files |-> invalid_files])
    /\ NextRun
    /\ UNCHANGED <<fixed, inp_files, wpc, wres, wtmp, lock, validated, copied,
                   in_lock, output>>

NextBatch ==
    \/ Main_Find
    \/ Main_FindNone
    \/ \E d \in Docs : W_Process(d)
    \/ \E d \in Docs : W_Stage(d)
    \/ \E d \in Docs : W_Acquire(d)
    \/ \E d \in Docs : W_Load(d)
    \/ \E d \in Docs : W_Store(d)
    \/ \E d \in Docs : W_Release(d)
    \/ \E d \in Docs : Main_Collect(d)
    \/ B_Find
    \/ B_FindNone
    \/ \E d \in Docs : B_Process(d)
    \/ Main_Finish

SpecBatch == InitBatch /\ [][NextBatch]_vars

\* the files the first run staged
StagedInFirstRun == {c[2] : c \in {x \in copied : x[1] = 1}}

\* C11: for the local curator (main of download_swmm_examples) run twice
\* over the same repository, the second run copies no file the first run
\* staged, never submits nor validates a document whose input file is in
\* the output corpus, and reports no accepted document.
C11_SecondRunIdempotent ==
    (dialect = "A" /\ run >= 2)
    => /\ \A c \in copied : c[1] = 2 => c[2] \notin StagedInFirstRun
       /\ \A d \in Docs :
            InpTarget(d) \in StagedInFirstRun
            => /\ <<2, d>> \notin validated
               /\ (mainpc # "find" => d \notin inp_files)
       /\ valid_files = <<>>
       /\ (Len(summaries) = 2 => summaries[2].valid = 0)

\* the second run is over; the first staged a document, which the second
\* skipped, and rejected another, which the second processed again
C11_Witness ==
    /\ dialect = "A"
    /\ mainpc = "end"
    /\ Len(summaries) = 2
    /\ summaries[1].valid >= 1
    /\ summaries[2].total >= 1
    /\ \E d \in Docs : InpTarget(d) \in StagedInFirstRun /\ d \notin inp_files
    /\ \E d \in Docs : <<1, d>> \in validated /\ <<2, d>> \in validated

\* the entries main recorded for document d in this run
EntriesOf(d) ==
    {<<"valid", i>> : i \in {k \in 1..Len(valid_files) : valid_files[k].doc = d}}
    \cup {<<"invalid", i>> :
             i \in {k \in 1..Len(invalid_files) : invalid_files[k].doc = d}}

\* the processing of d met a failure: unreadable or unfetchable input, a
\* folder that cannot be made, a copy that fails
Failed(d) ==
    \/ corpus[d].fault = "read"
    \/ /\ PreStagingReason(d) = ""
       /\ \/ corpus[d].fault \in {"mkdir", "copy_inp"}
          \/ corpus[d].fault = "copy_ext" /\ DocFound(d) # {}

\* C13: a failure while processing one document never stops the batch;
\* every rejected entry carries a reason code; and when a run is over every
\* submitted document has exactly one entry, a rejected one for a document
\* whose processing failed.
C13_FailureNeverStopsBatch ==
    /\ mainpc # "aborted"
    /\ \A i \in 1..Len(invalid_files) : invalid_files[i].reason # ""
    /\ \A d \in Docs : Cardinality(EntriesOf(d)) <= 1
    /\ (mainpc = "collect" /\ \A d \in inp_files : wpc[d] = "collected")
       => \A d \in inp_files :
            /\ Cardinality(EntriesOf(d)) = 1
            /\ Failed(d) => \E i \in 1..Len(invalid_files) :
                               invalid_files[i].doc = d

\* the workers of this run that have incremented and left the lock
CountedDocs ==
    {d \in inp_files :
        \/ wpc[d] \in {"release", "returned"}
        \/ /\ wpc[d] = "collected"
           /\ \E e \in EntriesOf(d) :
                 \/ e[1] = "valid"
                 \/ invalid_files[e[2]].reason # "exception"}

\* every worker of this run has returned (none is running, none raised)
AllReturned ==
    /\ mainpc = "collect"
    /\ \A d \in inp_files :
          /\ wpc[d] \in {"returned", "collected"}
          /\ \A e \in EntriesOf(d) :
                e[1] = "invalid" => invalid_files[e[2]].reason # "exception"

\* C14: under every interleaving of the workers, processed_count is only
\* written by the holder of counter_lock, never decreases during a run, has
\* been incremented exactly once for each worker that has passed its return
\* path, and equals the number of submitted documents once all workers have
\* returned.
C14_CounterExact ==
    /\ [](dialect = "A" =>
             /\ in_lock
             /\ (mainpc = "collect" =>
                    processed_count = Cardinality(CountedDocs))
             /\ (AllReturned => processed_count = Cardinality(inp_files)))
    /\ [][(dialect = "A" /\ run' = run)
             => processed_count' >= processed_count]_vars

\* both workers have returned, on different return paths, and are counted
C14_Witness ==
    /\ dialect = "A"
    /\ run = 1
    /\ AllReturned
    /\ Cardinality(inp_files) >= 2
    /\ processed_count = Cardinality(inp_files)
    /\ \E d, e \in inp_files : wres[d] = "" /\ wres[e] = "copy_failed"

-----------------------------------------------------------------------------
(* examples/validate_input.py: validate_swmm_file, validate_epanet_file    *)
(* and the file-type detection of main                                     *)

LintIssue(t, l, a) == [type |-> t, line |-> l, arg |-> a]

\* a variant that looks at the first character only
IsHeaderLine_starts_only(parts) ==
    /\ parts # <<>>
    /\ StartsWithBracket(parts[1])

\* line_stripped.startswith('[') and line_stripped.endswith(']')
IsHeaderLine(parts) ==
    /\ parts # <<>>
    /\ StartsWithBracket(parts[1])
    /\ EndsWithBracket(parts[Len(parts)])

\* line_stripped[1:-1].upper(), kept with its brackets; "[?]" for a header
\* line of several words
SectionName(parts) == IF Len(parts) = 1 THEN Upper(parts[1]) ELSE "[?]"

\* the first quoted word of a line: re.search(r'["\']([^"\']+)["\']', line)
FirstQuoted(line) ==
    LET S == {k \in 1..Len(line) : IsQuoted(line[k])}
    IN  IF S = {} THEN "" ELSE line[MinOf(S)]

\* lines 48-62: a quoted absolute reference on a line that mentions FILE
ExternalFileIssues(line, i) ==
    IF /\ ContainsUpper(line, "FILE")
       /\ FirstQuoted(line) # ""
       /\ \/ HasColonBackslash(Inner(FirstQuoted(line)))
          \/ StartsWithSlash(Inner(FirstQuoted(line)))
    THEN <<LintIssue("external_file", i, Inner(FirstQuoted(line)))>>
    ELSE <<>>

\* lines 82-99: the IMD field of a row of the infiltration section
InfiltrationIssues(section, parts, i) ==
    IF /\ section = "[INFILTRATION]"
       /\ Len(parts) >= 4
       /\ ~StartsWithSemicolon(parts[1])
       /\ Float10(parts[4]) # NotANumber
       /\ Float10(parts[4]) > 10
    THEN <<LintIssue("invalid_parameter", i, parts[4])>>
    ELSE <<>>

\* lines 101-119: the name after the first TIMESERIES token of a gauge line
RaingageIssues(section, parts, i, defined) ==
    LET S == {j \in 1..Len(parts) : Upper(parts[j]) = "TIMESERIES"}
    IN  IF /\ section = "[RAINGAGES]"
           /\ S # {}
           /\ MinOf(S) < Len(parts)
           /\ parts[MinOf(S) + 1] \notin defined
        THEN <<LintIssue("undefined_reference", i, parts[MinOf(S) + 1])>>
        ELSE <<>>

\* one iteration of the loop over the lines (lines 36-119)
LintStep(line, i, st) ==
    LET parts == Parts(line)
        header == IsHeaderLine(parts)
        section == IF header THEN SectionName(parts) ELSE st.section
        order == IF header THEN Append(st.order, section) ELSE st.order
        defined == IF section = "[TIMESERIES]" /\ parts # <<>>
                      /\ ~StartsWithSemicolon(parts[1])
                   THEN st.defined \cup {parts[1]} ELSE st.defined
    IN  IF parts = <<>> \/ StartsWithSemicolon(parts[1])
        THEN [st EXCEPT !.section = section, !.order = order]
        ELSE [section |-> section,
              order |-> order,
              defined |-> defined,
              issues |-> st.issues
                         \o ExternalFileIssues(line, i)
                         \o InfiltrationIssues(section, parts, i)
                         \o RaingageIssues(section, parts, i, defined)]

RECURSIVE LintScan(_, _, _)
LintScan(lines, i, st) ==
    IF i > Len(lines) THEN st
    ELSE LintScan(lines, i + 1, LintStep(lines[i], i, st))

\* section_order.index(name), 0 if absent
IndexIn(order, name) ==
    LET S == {k \in 1..Len(order) : order[k] = name}
    IN  IF S = {} THEN 0 ELSE MinOf(S)

\* lines 121-130
SectionOrderIssues(order) ==
    IF /\ IndexIn(order, "[RAINGAGES]") # 0
       /\ IndexIn(order, "[TIMESERIES]") # 0
       /\ IndexIn(order, "[RAINGAGES]") < IndexIn(order, "[TIMESERIES]")
    THEN <<LintIssue("section_order", 0, "")>>
    ELSE <<>>

\* a variant that counts the lines from 0
vi_validate_swmm_file_from_zero(text) ==
    LET st == LintScan(SplitLines(text), 1,
                  [section |-> "", order |-> <<>>, defined |-> {},
                   issues |-> <<>>])
    IN  [k \in 1..Len(st.issues) |->
            [st.issues[k] EXCEPT !.line = st.issues[k].line - 1]]
        \o SectionOrderIssues(st.order)

\* validate_swmm_file of validate_input.py: the list of issues
vi_validate_swmm_file(text) ==
    LET st == LintScan(SplitLines(text), 1,
                  [section |-> "", order |-> <<>>, defined |-> {},
                   issues |-> <<>>])
    IN  st.issues \o SectionOrderIssues(st.order)

\* content[:match.start()].count('\n') + 1
LineOf(text, i) == Cardinality({k \in 1..(i - 1) : text[k] = NL}) + 1

\* validate_epanet_file: absolute targets of FILE references
RECURSIVE EpanetIssuesFrom(_, _)
EpanetIssuesFrom(text, i) ==
    IF i > Len(text) THEN <<>>
    ELSE LET w == IF i \in FileMatches(text) THEN text[NextWord(text, i)]
                  ELSE ""
             ref == IF IsQuoted(w) THEN Inner(w) ELSE w
         IN  (IF HasColonBackslash(ref) \/ StartsWithSlash(ref)
              THEN <<LintIssue("external_file", LineOf(text, i), ref)>>
              ELSE <<>>)
             \o EpanetIssuesFrom(text, i + 1)

validate_epanet_file(text) == EpanetIssuesFrom(text, 1)

\* main, lines 171-184: the file type chosen from f.read(1000).upper(); the
\* documents of the model are shorter than the 1000 characters read
detect_sim_type(text) ==
    LET head == text
    IN  IF ContainsUpper(head, "[JUNCTIONS]")
           \/ ContainsUpper(head, "[SUBCATCHMENTS]")
        THEN "SWMM"
        ELSE IF ContainsUpper(head, "[PIPES]") \/ ContainsUpper(head, "[TANKS]")
        THEN "EPANET"
        ELSE "SWMM"

\* longest document of the infiltration family, in lines
MaxInfilLines == 3

\* longest document of the rain-gauge family, in lines
MaxGageLines == 4

\* longest document of the file-type family, in lines
MaxTypeLines == 3

InfilLines ==
    { Header("[INFILTRATION]"),
      Header("[OPTIONS]"),
      <<"S1", "3.0", "0.5", "1.5">>,
      <<"S2", "3.0", "0.5", "0.5">>,
      <<"S3", "3.0", "0.5">>,
      <<"S4", "3.0", "0.5", "abc">>,
      <<";", "S5", "3.0", "0.5", "1.5">>,
      <<";", "[mm/hr]">> }

GageLines ==
    { Header("[RAINGAGES]"),
      Header("[TIMESERIES]"),
      <<"RG1", "INTENSITY", "TIMESERIES", "TS1">>,
      <<"RG2", "INTENSITY", "timeseries", "TS2">>,
      <<"TS1", "0", "0.5">>,
      <<";", "RG3", "TIMESERIES", "TS3">> }

TypeLines ==
    { Header("[JUNCTIONS]"),
      Header("[PIPES]"),
      Header("[TANKS]"),
      Header("[RESERVOIRS]"),
      Header("[SUBCATCHMENTS]"),
      Header("[OPTIONS]"),
      FileLine("\"D:\\rain.dat\"") }

\* the example input of the specification
SpecExample ==
    Text(<< Header("[OPTIONS]"),
            Header("[JUNCTIONS]"), <<"J1", "0", "0">>,
            Header("[PIPES]"), <<"P1", "J1", "J2", "100">>,
            Header("[INFILTRATION]"), <<"J1", "3.0", "0.5", "1.5">> >>)

LintDocs ==
    {Text(x) : x \in SeqsUpTo(InfilLines, MaxInfilLines)}
    \cup {Text(x) : x \in SeqsUpTo(GageLines, MaxGageLines)}
    \cup {Text(x) : x \in SeqsUpTo(TypeLines, MaxTypeLines)}
    \cup {SpecExample}

InitLint ==
    /\ source \in LintDocs
    /\ pc = "lint"
    /\ sim_type = ""
    /\ lint_issues = <<>>
    /\ dialect = "A"
    /\ folder = ProjDir
    /\ tree = {}
    /\ content = <<>>
    /\ external_files = {}
    /\ todo = {}
    /\ cand = 1
    /\ cur = ""
    /\ found_files = <<>>
    /\ missing_files = {}
    /\ issues = <<>>
    /\ is_valid = FALSE
    /\ validate_calls = 0
    /\ tocopy = {}
    /\ output = {}
    /\ result = Pending
    /\ processed_count = 0
    /\ last_request = <<>>
    /\ last_status = 0
    /\ last_listing = EmptyList
    /\ throttled = {}
    /\ clock = 0
    /\ BatchIdle
    /\ ToolsIdle

lintfixed == <<dialect, folder, tree, source, external_files, todo, cand, cur,
               found_files, missing_files, is_valid, tocopy, output, result,
               processed_count, last_request, last_status, last_listing,
               throttled, clock, batchvars, toolvars>>

\* validate_input.main: the file type is determined
Detect ==
    /\ pc = "lint"
    /\ sim_type = ""
    /\ sim_type' = detect_sim_type(source)
    /\ UNCHANGED <<lintfixed, pc, lint_issues, content, issues, validate_calls>>

\* validate_input.main: issues = validate_swmm_file(filepath)
RunSwmmRules ==
    /\ pc = "lint"
    /\ sim_type = "SWMM"
    /\ lint_issues' = vi_validate_swmm_file(source)
    /\ pc' = "linted"
    /\ UNCHANGED <<lintfixed, sim_type, content, issues, validate_calls>>

\* validate_input.main: issues = validate_epanet_file(filepath)
RunEpanetRules ==
    /\ pc = "lint"
    /\ sim_type = "EPANET"
    /\ lint_issues' = validate_epanet_file(source)
    /\ pc' = "linted"
    /\ UNCHANGED <<lintfixed, sim_type, content, issues, validate_calls>>

\* the downloader's validate_swmm_file applied to the same document
CurateValidate ==
    /\ pc \in {"lint", "linted"}
    /\ validate_calls = 0
    /\ content' = source
    /\ issues' = validate_swmm_file(source)
    /\ validate_calls' = 1
    /\ UNCHANGED <<lintfixed, pc, sim_type, lint_issues>>

NextLint ==
    \/ Detect
    \/ RunSwmmRules
    \/ RunEpanetRules
    \/ CurateValidate

SpecLint == InitLint /\ [][NextLint]_vars

-----------------------------------------------------------------------------
(* Claims about the validation rules *)

\* section of line i: the name of the last header line up to i, "" if none
LineSection(lines, i) ==
    LET S == {k \in 1..i : IsHeaderLine(Parts(lines[k]))}
    IN  IF S = {} THEN ""
        ELSE SectionName(Parts(lines[CHOOSE k \in S : \A m \in S : m <= k]))

\* line i is a data row: not blank, not a comment, not a header
IsRowAt(lines, i) ==
    /\ Parts(lines[i]) # <<>>
    /\ ~StartsWithSemicolon(Parts(lines[i])[1])
    /\ ~IsHeaderLine(Parts(lines[i]))

RowsOf(lines, section) ==
    {i \in 1..Len(lines) : IsRowAt(lines, i) /\ LineSection(lines, i) = section}

\* infiltration rows with at least 4 fields and a numeric 4th field above 1.0
BadImdRows(lines) ==
    {i \in RowsOf(lines, "[INFILTRATION]") :
        /\ Len(Parts(lines[i])) >= 4
        /\ Float10(Parts(lines[i])[4]) > 10}

\* the issues of a list that have a given type (validate_input)
OfType(iss, t) == {k \in 1..Len(iss) : iss[k].type = t}

\* the issues of a list that have a given message (downloader)
WithMsg(iss, m) == {k \in 1..Len(iss) : iss[k].msg = m}

\* C15: each validator emits exactly one invalid-parameter error for every
\* infiltration row with at least 4 fields whose 4th field is a number
\* above 1.0, validate_input citing the row's line, and none for any other
\* row.
C15_OneErrorPerBadImdRow ==
    LET lines == SplitLines(source)
    IN  /\ (pc = "linted" /\ sim_type = "SWMM")
           => /\ {lint_issues[k].line :
                     k \in OfType(lint_issues, "invalid_parameter")}
                 = BadImdRows(lines)
              /\ Cardinality(OfType(lint_issues, "invalid_parameter"))
                 = Cardinality(BadImdRows(lines))
        /\ (pc \in {"lint", "linted"} /\ validate_calls = 1)
           => Cardinality(WithMsg(issues, "Invalid IMD value"))
              = Cardinality(BadImdRows(lines))

\* names defined by the rows of the time-series sections
DefinedSeries(lines) ==
    {Parts(lines[i])[1] : i \in RowsOf(lines, "[TIMESERIES]")}

\* the time series the rain-gauge rows cite: the token after TIMESERIES
Citations(lines) ==
    UNION {{[line |-> i, name |-> Parts(lines[i])[j + 1]] :
               j \in {k \in 1..(Len(Parts(lines[i])) - 1) :
                         Upper(Parts(lines[i])[k]) = "TIMESERIES"}} :
           i \in RowsOf(lines, "[RAINGAGES]")}

\* C16: a time series defined anywhere in the document, before or after
\* the rain gauges, is never reported as undefined by either validator.
C16_ResolutionOrderIndependent ==
    LET lines == SplitLines(source)
    IN  /\ (pc = "linted" /\ sim_type = "SWMM")
           => \A k \in OfType(lint_issues, "undefined_reference") :
                 lint_issues[k].arg \notin DefinedSeries(lines)
        /\ (pc \in {"lint", "linted"} /\ validate_calls = 1)
           => \A k \in WithMsg(issues, "Undefined TIMESERIES") :
                 issues[k].arg \notin DefinedSeries(lines)

\* C17: for every rain-gauge row citing a time series that no row of the
\* document defines, each validator emits an undefined-reference error for
\* that name, also when the document has no [TIMESERIES] section.
C17_UndefinedSeriesReported ==
    LET lines == SplitLines(source)
        undefined == {c \in Citations(lines) : c.name \notin DefinedSeries(lines)}
    IN  /\ (pc = "linted" /\ sim_type = "SWMM")
           => \A c \in undefined :
                 \E k \in OfType(lint_issues, "undefined_reference") :
                    lint_issues[k].line = c.line /\ lint_issues[k].arg = c.name
        /\ (pc \in {"lint", "linted"} /\ validate_calls = 1)
           => \A c \in undefined :
                 \E k \in WithMsg(issues, "Undefined TIMESERIES") :
                    issues[k].arg = c.name

\* first header line of a section, 0 if the document has none
FirstHeader(lines, section) ==
    LET S == {i \in 1..Len(lines) :
                 /\ IsHeaderLine(Parts(lines[i]))
                 /\ SectionName(Parts(lines[i])) = section}
    IN  IF S = {} THEN 0 ELSE MinOf(S)

\* the time series are first defined after the rain gauges that cite them
OrderViolated(lines) ==
    /\ FirstHeader(lines, "[RAINGAGES]") # 0
    /\ FirstHeader(lines, "[TIMESERIES]") > FirstHeader(lines, "[RAINGAGES]")
    /\ Citations(lines) # {}

\* C18: each validator emits exactly one section-order issue when the
\* [TIMESERIES] section first appears after [RAINGAGES] and some gauge row
\* cites a time series, and none in every other case.
C18_SectionOrderIssueExact ==
    LET lines == SplitLines(source)
        expected == IF OrderViolated(lines) THEN 1 ELSE 0
    IN  /\ (pc = "linted" /\ sim_type = "SWMM")
           => Cardinality(OfType(lint_issues, "section_order")) = expected
        /\ (pc \in {"lint", "linted"} /\ validate_calls = 1)
           => Cardinality(WithMsg(issues,
                 "[TIMESERIES] should come before [RAINGAGES]")) = expected

\* C19 as stated: for the example input the validator emits exactly one
\* invalid_parameter error, with value 1.5 and line number 6.
C19_ExampleLineSix ==
    (source = SpecExample /\ pc = "linted")
    => /\ Cardinality(OfType(lint_issues, "invalid_parameter")) = 1
       /\ \A k \in OfType(lint_issues, "invalid_parameter") :
             lint_issues[k].arg = "1.5" /\ lint_issues[k].line = 6

\* C19 amended: for the example input the validator emits exactly one
\* invalid_parameter error, with value 1.5 and line number 7, the line of
\* the infiltration row counted from 1.
C19_ExampleLineSeven ==
    (source = SpecExample /\ pc = "linted")
    => /\ sim_type = "SWMM"
       /\ Cardinality(OfType(lint_issues, "invalid_parameter")) = 1
       /\ \A k \in OfType(lint_issues, "invalid_parameter") :
             lint_issues[k].arg = "1.5" /\ lint_issues[k].line = 7

C19_Witness ==
    /\ source = SpecExample
    /\ pc = "linted"
    /\ lint_issues = <<LintIssue("invalid_parameter", 7, "1.5")>>

\* a pressurized-network file: [PIPES] or [TANKS], the required [JUNCTIONS],
\* and no rainfall-catchment section
IsPressurizedNetwork(text) ==
    /\ Contains(text, "[PIPES]") \/ Contains(text, "[TANKS]")
    /\ Contains(text, "[JUNCTIONS]")
    /\ ~Contains(text, "[SUBCATCHMENTS]")

\* C20: a pressurized-network file is validated with the EPANET rules, never
\* with the SWMM rules.
C20_DialectDetected ==
    (sim_type # "" /\ IsPressurizedNetwork(source)) => sim_type = "EPANET"

-----------------------------------------------------------------------------
(* wrapi.py: WRAPIClient.wait_for_completion *)

\* longest timeout given to wait_for_completion, in units of time
MaxTimeout == 3

\* longest interval given to wait_for_completion
MaxInterval == 2

\* longest time one request takes
MaxLatency == 1

Latencies == 0..MaxLatency

\* the status field of a simulation record
SimStatuses == {"pending", "running", "completed", "failed"}

\* what a request can come to: a 200 response carrying a record with one
\* of the statuses, another status code, or an exception of the transport
Outcomes == SimStatuses \cup {"http_error", "raised"}

\* _request: a RequestException ends the process (sys.exit(1))
Exits(outcome) == outcome = "raised"

\* get_simulation: the record of a 200 response, None for any other
get_simulation(outcome) ==
    IF outcome \in SimStatuses THEN outcome ELSE "None"

IsTerminalStatus_completed_only(status) == status = "completed"

\* status in ['completed', 'failed']
IsTerminalStatus(status) == status \in {"completed", "failed"}

\* one status fetch, as the history keeps it
Poll(status, final) ==
    [status |-> status, final |-> final, slept |-> slept,
     elapsed |-> now - start_time]

\* no document is being curated
DocIdle ==
    /\ dialect = "A"
    /\ folder = ProjDir
    /\ tree = {}
    /\ source = <<>>
    /\ pc = "idle"
    /\ content = <<>>
    /\ external_files = {}
    /\ todo = {}
    /\ cand = 1
    /\ cur = ""
    /\ found_files = <<>>
    /\ missing_files = {}
    /\ issues = <<>>
    /\ is_valid = FALSE
    /\ validate_calls = 0
    /\ tocopy = {}
    /\ output = {}
    /\ result = Pending
    /\ processed_count = 0
    /\ last_request = <<>>
    /\ last_status = 0
    /\ last_listing = EmptyList
    /\ throttled = {}
    /\ clock = 0

InitWait ==
    /\ wait_pc = "call"
    /\ now \in Latencies
    /\ start_time = 0
    /\ timeout \in 0..MaxTimeout
    /\ interval \in 1..MaxInterval
    /\ sim = "None"
    /\ polls = <<>>
    /\ slept = 0
    /\ wait_result = "None"
    /\ DocIdle
    /\ BatchIdle
    /\ LintIdle
    /\ RunBatchIdle
    /\ IniIdle
    /\ ScanIdle

waitfixed == <<docvars, batchvars, lintvars, runbatchvars, inivars, scanvars>>

\* start_time = time.time()
Wait_Call ==
    /\ wait_pc = "call"
    /\ start_time' = now
    /\ wait_pc' = "while"
    /\ UNCHANGED <<waitfixed, now, timeout, interval, sim, polls, slept,
                   wait_result>>

\* while time.time() - start_time < timeout
Wait_Test ==
    /\ wait_pc = "while"
    /\ wait_pc' = IF now - start_time < timeout THEN "get_simulation"
                  ELSE "final"
    /\ UNCHANGED <<waitfixed, now, start_time, timeout, interval, sim, polls,
                   slept, wait_result>>

\* sim = self.get_simulation(sim_id); if not sim: return None
Wait_GetSimulation ==
    /\ wait_pc = "get_simulation"
    /\ \E outcome \in Outcomes, latency \in Latencies :
          /\ now' = now + latency
          /\ IF Exits(outcome)
             THEN /\ polls' = Append(polls, Poll("raised", FALSE))
                  /\ wait_pc' = "exited"
                  /\ UNCHANGED <<sim, wait_result>>
             ELSE /\ polls' = Append(polls, Poll(get_simulation(outcome), FALSE))
                  /\ sim' = get_simulation(outcome)
                  /\ IF get_simulation(outcome) = "None"
                     THEN /\ wait_result' = "None"
                          /\ wait_pc' = "returned"
                     ELSE /\ wait_pc' = "get_logs"
                          /\ UNCHANGED wait_result
    /\ UNCHANGED <<waitfixed, start_time, timeout, interval, slept>>

\* logs = self.get_simulation_logs(sim_id, limit=20), progress and log
\* lines are printed
Wait_GetLogs ==
    /\ wait_pc = "get_logs"
    /\ \E outcome \in {"ok", "http_error", "raised"}, latency \in Latencies :
          /\ now' = now + latency
          /\ wait_pc' = IF Exits(outcome) THEN "exited" ELSE "check"
    /\ UNCHANGED <<waitfixed, start_time, timeout, interval, sim, polls,
                   slept, wait_result>>

\* if status in ['completed', 'failed']: return sim
Wait_Check ==
    /\ wait_pc = "check"
    /\ IF IsTerminalStatus(sim)
       THEN /\ wait_result' = sim
            /\ wait_pc' = "returned"
       ELSE /\ wait_pc' = "sleep"
            /\ UNCHANGED wait_result
    /\ UNCHANGED <<waitfixed, now, start_time, timeout, interval, sim, polls,
                   slept>>

\* time.sleep(interval)
Wait_Sleep ==
    /\ wait_pc = "sleep"
    /\ now' = now + interval
    /\ slept' = slept + interval
    /\ wait_pc' = "while"
    /\ UNCHANGED <<waitfixed, start_time, timeout, interval, sim, polls,
                   wait_result>>

\* after the loop: return self.get_simulation(sim_id)
Wait_Final ==
    /\ wait_pc = "final"
    /\ \E outcome \in Outcomes, latency \in Latencies :
          /\ now' = now + latency
          /\ IF Exits(outcome)
             THEN /\ polls' = Append(polls, Poll("raised", TRUE))
                  /\ wait_pc' = "exited"
                  /\ UNCHANGED <<sim, wait_result>>
             ELSE /\ polls' = Append(polls, Poll(get_simulation(outcome), TRUE))
                  /\ sim' = get_simulation(outcome)
                  /\ wait_result' = get_simulation(outcome)
                  /\ wait_pc' = "returned"
    /\ UNCHANGED <<waitfixed, start_time, timeout, interval, slept>>

NextWait ==
    \/ Wait_Call
    \/ Wait_Test
    \/ Wait_GetSimulation
    \/ Wait_GetLogs
    \/ Wait_Check
    \/ Wait_Sleep
    \/ Wait_Final

SpecWait == InitWait /\ [][NextWait]_vars

\* every statement of the function is executed in its turn and every
\* request is answered or raises
SpecWaitFair == SpecWait /\ WF_vars(NextWait)

\* the call is over: the function returned or the process exited
WaitEnded == wait_pc \in {"returned", "exited"}

\* a status fetch after which no other one may follow
EndsPolling(p) ==
    \/ p.final
    \/ p.status \in {"completed", "failed", "None", "raised"}

WaitSafe ==
    /\ \A i \in 1..(Len(polls) - 1) :
          /\ ~EndsPolling(polls[i])
          /\ polls[i + 1].slept - polls[i].slept = interval
    /\ \A i \in 1..Len(polls) : polls[i].final <=> polls[i].elapsed >= timeout
    /\ wait_pc = "returned"
       => /\ polls # <<>>
          /\ wait_result = polls[Len(polls)].status
          /\ EndsPolling(polls[Len(polls)])

-----------------------------------------------------------------------------
(* examples/run_batch.py: run_batch *)

\* most input files given to run_batch
MaxInputs == 2

\* timeout = 600
BatchTimeout == 600

\* time.sleep(5)
BatchSleep == 5

InitRunBatch ==
    /\ rb_pc = "submit"
    /\ rb_inputs \in 0..MaxInputs
    /\ simulations = <<>>
    /\ completed = {}
    /\ rb_i = 0
    /\ rb_polled = 0
    /\ rb_summary = <<>>
    /\ wait_pc = "idle"
    /\ now = 0
    /\ start_time = 0
    /\ timeout = 0
    /\ interval = 0
    /\ sim = "None"
    /\ polls = <<>>
    /\ slept = 0
    /\ wait_result = "None"
    /\ DocIdle
    /\ BatchIdle
    /\ LintIdle
    /\ IniIdle
    /\ ScanIdle

rbfixed == <<docvars, batchvars, lintvars, inivars, scanvars, wait_pc,
             timeout,
             interval, sim, polls, slept, wait_result>>

\* for input_file in input_files: the simulation is created and appended,
\* or the submission fails and is only reported; the id is the server's,
\* one per simulation created
RB_Submit ==
    /\ rb_pc = "submit"
    /\ rb_inputs > 0
    /\ \E outcome \in Outcomes :
          IF Exits(outcome)
          THEN /\ rb_pc' = "exited"
               /\ UNCHANGED <<rb_inputs, simulations>>
          ELSE /\ rb_inputs' = rb_inputs - 1
               /\ simulations' =
                     IF outcome \in SimStatuses
                     THEN Append(simulations,
                                 [id |-> Len(simulations) + 1, status |-> outcome])
                     ELSE simulations
               /\ UNCHANGED rb_pc
    /\ UNCHANGED <<rbfixed, now, start_time, completed, rb_i, rb_polled,
                   rb_summary>>

\* completed = set(); start_time = time.time()
RB_Start ==
    /\ rb_pc = "submit"
    /\ rb_inputs = 0
    /\ completed' = {}
    /\ start_time' = now
    /\ rb_pc' = "while"
    /\ UNCHANGED <<rbfixed, now, rb_inputs, simulations, rb_i, rb_polled,
                   rb_summary>>

\* while len(completed) < len(simulations) and
\*       (time.time() - start_time) < timeout
RB_Test ==
    /\ rb_pc = "while"
    /\ IF Cardinality(completed) < Len(simulations)
          /\ now - start_time < BatchTimeout
       THEN /\ rb_pc' = "for"
            /\ rb_i' = 1
       ELSE /\ rb_pc' = "summary"
            /\ UNCHANGED rb_i
    /\ UNCHANGED <<rbfixed, now, start_time, rb_inputs, simulations, completed,
                   rb_polled, rb_summary>>

AlreadyCompleted_never(id, done) == FALSE

\* if sim['id'] in completed: continue
AlreadyCompleted(id, done) == id \in done

\* one pass of the body of: for sim in simulations
RB_Poll ==
    /\ rb_pc = "for"
    /\ rb_i <= Len(simulations)
    /\ IF AlreadyCompleted(simulations[rb_i].id, completed)
       THEN /\ rb_i' = rb_i + 1
            /\ rb_polled' = 0
            /\ UNCHANGED <<now, simulations, completed, rb_pc>>
       ELSE \E outcome \in Outcomes, latency \in Latencies :
               /\ now' = now + latency
               /\ rb_polled' = simulations[rb_i].id
               /\ IF Exits(outcome)
                  THEN /\ rb_pc' = "exited"
                       /\ UNCHANGED <<simulations, completed, rb_i>>
                  ELSE /\ rb_i' = rb_i + 1
                       /\ UNCHANGED rb_pc
                       /\ IF get_simulation(outcome) = "None"
                          THEN UNCHANGED <<simulations, completed>>
                          ELSE /\ simulations' =
                                     [simulations EXCEPT ![rb_i].status = outcome]
                               /\ completed' =
                                     IF IsTerminalStatus(outcome)
                                     THEN completed \cup {simulations[rb_i].id}
                                     ELSE completed
    /\ UNCHANGED <<rbfixed, start_time, rb_inputs, rb_summary>>

\* after the for loop: if len(completed) < len(simulations): time.sleep(5)
RB_Sleep ==
    /\ rb_pc = "for"
    /\ rb_i > Len(simulations)
    /\ now' = IF Cardinality(completed) < Len(simulations)
              THEN now + BatchSleep ELSE now
    /\ rb_pc' = "while"
    /\ rb_polled' = 0
    /\ UNCHANGED <<rbfixed, start_time, rb_inputs, simulations, completed, rb_i,
                   rb_summary>>

CountStatus(sims, status) ==
    Cardinality({i \in 1..Len(sims) : sims[i].status = status})

\* the summary: success, failed and other
RB_Summary ==
    /\ rb_pc = "summary"
    /\ LET success == CountStatus(simulations, "completed")
           failed == CountStatus(simulations, "failed")
       IN  rb_summary' = [success |-> success, failed |-> failed,
                          other |-> Len(simulations) - success - failed]
    /\ rb_pc' = "done"
    /\ UNCHANGED <<rbfixed, now, start_time, rb_inputs, simulations, completed,
                   rb_i, rb_polled>>

NextRunBatch ==
    \/ RB_Submit
    \/ RB_Start
    \/ RB_Test
    \/ RB_Poll
    \/ RB_Sleep
    \/ RB_Summary

SpecRunBatch == InitRunBatch /\ [][NextRunBatch]_vars

\* the ids of the simulations that were submitted successfully
SubmittedIds == {simulations[i].id : i \in 1..Len(simulations)}

\* the polling loop is over and the summary is being or has been printed
LoopEnded == rb_pc \in {"summary", "done"}

\* C22: the polling loop of run_batch ends only when every submitted
\* simulation was observed completed or failed or 600 seconds have elapsed;
\* a simulation observed in a terminal status is never polled again and its
\* recorded status never changes; in the summary completed + failed + other
\* is the number of simulations submitted.
C22_BatchWaitsForAll ==
    /\ [](LoopEnded
             => \/ now - start_time >= 600
                \/ /\ completed = SubmittedIds
                   /\ \A i \in 1..Len(simulations) :
                         simulations[i].status \in {"completed", "failed"})
    /\ [](rb_pc = "done"
             => /\ rb_summary.success + rb_summary.failed + rb_summary.other
                   = Cardinality(SubmittedIds)
                /\ rb_summary.other >= 0)
    /\ [][/\ rb_polled' # 0 /\ <<rb_i, now, rb_pc>> # <<rb_i', now', rb_pc'>>
             => rb_polled' \notin completed
          /\ \A i \in 1..Len(simulations) :
                simulations[i].id \in completed
                => /\ Len(simulations') >= i
                   /\ simulations'[i] = simulations[i]
                   /\ simulations[i].id \in completed']_vars

C22_Witness ==
    /\ rb_pc = "done"
    /\ Len(simulations) = 2
    /\ completed = {1, 2}
    /\ now - start_time >= 5
    /\ rb_summary = [success |-> 1, failed |-> 1, other |-> 0]

-----------------------------------------------------------------------------
(* wrapi.py: copy_and_update_ini_file *)

(* An .ini file is a sequence of lines; eol tells whether the last line    *)
(* ends with a line break (a last line without one is not empty).  A line  *)
(* is a word of IniWords, or two of them joined when a line without a      *)
(* line break is followed by more text.                                    *)

\* longest .ini file, in lines
MaxIniLines == 4

IniWords ==
    {"[Results]", "[Other]", "Current=0", "  Current=5", "Key=1", ""}

\* the line a write of 'Current=1\n' makes
CurrentOne == "Current=1"

\* str.strip() of a line
IniStrip(text) ==
    CASE text = "  Current=5" -> "Current=5"
      [] text = "  Current=5" \o CurrentOne -> "Current=5" \o CurrentOne
      [] OTHER -> text

\* line.strip().startswith('Current=')
StartsWithCurrent(text) ==
    IniStrip(text) \in {"Current=0", "Current=5", CurrentOne,
                        "Current=0" \o CurrentOne, "Current=5" \o CurrentOne}

\* line.strip().startswith('[')
IniStartsWithBracket(text) ==
    IniStrip(text) \in {"[Results]", "[Other]", "[Results]" \o CurrentOne,
                        "[Other]" \o CurrentOne}

\* line.strip() == '[Results]'
IsResultsHeader(text) == IniStrip(text) = "[Results]"

\* for line in file: the lines with their line breaks
IniRead(file) ==
    [i \in 1..Len(file.lines) |->
        [text |-> file.lines[i], nl |-> i < Len(file.lines) \/ file.eol]]

\* one pass of the loop body: st = [inside_results, found_current,
\* updated_lines]
IniStep(line, st) ==
    IF IsResultsHeader(line.text)
    THEN [st EXCEPT !.inside_results = TRUE,
                    !.updated_lines = Append(@, line)]
    ELSE IF st.inside_results /\ StartsWithCurrent(line.text)
    THEN [st EXCEPT !.updated_lines = Append(@, [text |-> CurrentOne, nl |-> TRUE]),
                    !.inside_results = FALSE,
                    !.found_current = TRUE]
    ELSE IF IniStartsWithBracket(line.text) /\ st.inside_results
    THEN [st EXCEPT !.updated_lines =
                        Append(IF ~st.found_current
                               THEN Append(@, [text |-> CurrentOne, nl |-> TRUE])
                               ELSE @, line),
                    !.inside_results = FALSE]
    ELSE [st EXCEPT !.updated_lines = Append(@, line)]

RECURSIVE IniScan(_, _, _)
IniScan(read, i, st) ==
    IF i > Len(read) THEN st
    ELSE IniScan(read, i + 1, IniStep(read[i], st))

\* the lines of the file that file.writelines(updated_lines) makes
RECURSIVE IniWritten(_)
IniWritten(pieces) ==
    IF Len(pieces) <= 1 THEN pieces
    ELSE IF pieces[1].nl THEN <<pieces[1]>> \o IniWritten(Tail(pieces))
    ELSE IniWritten(<<[text |-> pieces[1].text \o pieces[2].text,
                       nl |-> pieces[2].nl]>> \o Tail(Tail(pieces)))

\* the file copy_and_update_ini_file writes for an existing .ini file
copy_and_update_ini_file(file) ==
    LET st == IniScan(IniRead(file), 1,
                      [inside_results |-> FALSE, found_current |-> FALSE,
                       updated_lines |-> <<>>])
        updated_lines ==
            IF st.inside_results /\ ~st.found_current
            THEN Append(st.updated_lines, [text |-> CurrentOne, nl |-> TRUE])
            ELSE st.updated_lines
        written == IniWritten(updated_lines)
    IN  [lines |-> [i \in 1..Len(written) |-> written[i].text],
         eol |-> written = <<>> \/ written[Len(written)].nl,
         exists |-> TRUE]

IniFiles ==
    {[lines |-> l, eol |-> e, exists |-> TRUE] :
        l \in SeqsUpTo(IniWords, MaxIniLines), e \in BOOLEAN}
    \ {f \in [lines : SeqsUpTo(IniWords, MaxIniLines), eol : {FALSE},
                exists : {TRUE}] :
            f.lines = <<>> \/ f.lines[Len(f.lines)] = ""}

InitIni ==
    /\ ini_pc = "call"
    /\ ini_source \in IniFiles \cup {NoFile}
    /\ ini_copy = NoFile
    /\ ini_again = NoFile
    /\ ini_processed = FALSE
    /\ ClientIdle
    /\ RunBatchIdle
    /\ DocIdle
    /\ BatchIdle
    /\ LintIdle
    /\ ScanIdle

inifixed == <<docvars, batchvars, lintvars, clientvars, runbatchvars,
              scanvars>>

\* if not ini_path.exists(): return False
Ini_Missing ==
    /\ ini_pc = "call"
    /\ ~ini_source.exists
    /\ ini_processed' = FALSE
    /\ ini_pc' = "returned"
    /\ UNCHANGED <<inifixed, ini_source, ini_copy, ini_again>>

\* the file is read, updated and written to the results folder
Ini_Update ==
    /\ ini_pc = "call"
    /\ ini_source.exists
    /\ ini_copy' = copy_and_update_ini_file(ini_source)
    /\ ini_processed' = TRUE
    /\ ini_pc' = "returned"
    /\ UNCHANGED <<inifixed, ini_source, ini_again>>

\* except Exception: the file cannot be read, nothing is written
Ini_Fails ==
    /\ ini_pc = "call"
    /\ ini_source.exists
    /\ ini_processed' = FALSE
    /\ ini_pc' = "returned"
    /\ UNCHANGED <<inifixed, ini_source, ini_copy, ini_again>>

\* a later call finds the copy beside its input file and processes it
Ini_Again ==
    /\ ini_pc = "returned"
    /\ ini_processed
    /\ ini_again' = copy_and_update_ini_file(ini_copy)
    /\ ini_pc' = "returned_again"
    /\ UNCHANGED <<inifixed, ini_source, ini_copy, ini_processed>>

NextIni ==
    \/ Ini_Missing
    \/ Ini_Update
    \/ Ini_Fails
    \/ Ini_Again

SpecIni == InitIni /\ [][NextIni]_vars

-----------------------------------------------------------------------------
(* Claims about the .ini update *)

\* the [Results] header lines of a file
ResultsHeaders(lines) == {i \in 1..Len(lines) : IsResultsHeader(lines[i])}

\* the lines of the section a header line opens: up to the next line that
\* begins a section, or to the end of the file
SectionBody(lines, i) ==
    LET later == {j \in (i + 1)..Len(lines) : IniStartsWithBracket(lines[j])}
    IN  (i + 1)..((IF later = {} THEN Len(lines) + 1 ELSE MinOf(later)) - 1)

\* the k-th smallest member of a set of numbers
Nth(S, k) == CHOOSE x \in S : Cardinality({y \in S : y < x}) = k - 1

HasCurrentOne(lines, i) ==
    \E k \in SectionBody(lines, i) : IniStrip(lines[k]) = "Current=1"

HasCurrentLine(lines, i) ==
    \E k \in SectionBody(lines, i) : StartsWithCurrent(lines[k])

\* C23: the copy of a processed .ini file has a Current=1 line inside every
\* [Results] section: the section's Current= line is replaced by it, and a
\* section without one gets the line inserted at its end.
C23_CurrentSetInEveryResults ==
    (ini_pc = "returned" /\ ini_processed)
    => LET src == ini_source.lines
           cpy == ini_copy.lines
       IN  /\ Cardinality(ResultsHeaders(cpy)) = Cardinality(ResultsHeaders(src))
           /\ \A i \in ResultsHeaders(cpy) : HasCurrentOne(cpy, i)
           /\ \A k \in 1..Cardinality(ResultsHeaders(src)) :
                 Cardinality(ResultsHeaders(cpy)) >= k
                 => Cardinality(SectionBody(cpy, Nth(ResultsHeaders(cpy), k)))
                    = Cardinality(SectionBody(src, Nth(ResultsHeaders(src), k)))
                      + (IF HasCurrentLine(src, Nth(ResultsHeaders(src), k))
                         THEN 0 ELSE 1)

\* line i lies inside a [Results] section
InsideResults(lines, i) ==
    \E h \in ResultsHeaders(lines) : i \in SectionBody(lines, h)

\* the copy keeps the lines of the source from line i on, in order, but
\* for Current= lines inside [Results] it may hold Current=1 instead, and
\* it may hold inserted Current=1 lines
RECURSIVE Keeps(_, _, _, _)
Keeps(src, i, cpy, j) ==
    IF j > Len(cpy) THEN i > Len(src)
    ELSE \/ /\ i <= Len(src)
            /\ cpy[j] = src[i]
            /\ Keeps(src, i + 1, cpy, j + 1)
         \/ /\ i <= Len(src)
            /\ StartsWithCurrent(src[i])
            /\ InsideResults(src, i)
            /\ cpy[j] = "Current=1"
            /\ Keeps(src, i + 1, cpy, j + 1)
         \/ /\ cpy[j] = "Current=1"
            /\ Keeps(src, i, cpy, j + 1)

\* C30: the update changes nothing but the Current setting of [Results]:
\* every other line of the source is in the copy, unchanged and in order,
\* the source file is never modified, and updating the copy again yields
\* the same content.
C30_OnlyCurrentChanges ==
    /\ []((ini_pc \in {"returned", "returned_again"} /\ ini_processed)
            => Keeps(ini_source.lines, 1, ini_copy.lines, 1))
    /\ [](ini_pc = "returned_again" => ini_again = ini_copy)
    /\ [][ini_source' = ini_source]_vars

-----------------------------------------------------------------------------
(* Claims about resuming and about the summary of the batch *)

\* the first run staged the input file of d but not all of the external
\* files it resolved
PartlyStaged(d) ==
    /\ InpTarget(d) \in StagedInFirstRun
    /\ ~(ExtTargets(d) \subseteq StagedInFirstRun)

\* C24: a document whose staging failed part-way in the first run (input
\* file copied, an external file not) is processed again by the second
\* run, not skipped as already staged; and after a second run in which no
\* copy failed every staged input file has its resolved external files
\* staged with it.
C24_PartialStagingResumed ==
    (dialect = "A" /\ run >= 2)
    => /\ \A d \in Docs :
             (PartlyStaged(d) /\ mainpc # "find") => d \in inp_files
       /\ (/\ mainpc = "end"
           /\ \A k \in 1..Len(invalid_files) :
                 invalid_files[k].reason # "copy_failed")
          => \A d \in Docs :
                InpTarget(d) \in output => ExtTargets(d) \subseteq output

\* the documents a list of entries names, one per entry
EntryDocs(list) == [k \in 1..Len(list) |-> list[k].doc]

\* no element occurs twice in the sequence
NoRepeat(seq) ==
    \A i, j \in 1..Len(seq) : seq[i] = seq[j] => i = j

\* the summary adds up: the total is what was accepted plus what was
\* rejected, the counts are the lengths of the lists, and no document is
\* listed twice
AddsUp(summary) ==
    /\ summary.total = summary.valid + summary.invalid
    /\ summary.valid = Len(summary.valid_files)
    /\ summary.invalid = Len(summary.invalid_files)
    /\ NoRepeat(EntryDocs(summary.valid_files)
                 \o EntryDocs(summary.invalid_files))

\* C29: in the summary record written by every curation run, including a
\* dialect-B run started with --reprocess-invalid on top of an earlier
\* summary, total_found equals valid + invalid, valid equals the length of
\* valid_files, invalid equals the length of invalid_files, and no document
\* appears in both lists or twice in one list.
C29_SummaryAddsUp ==
    \A k \in 1..Len(summaries) : AddsUp(summaries[k])

-----------------------------------------------------------------------------
(* Claims about the topology check of validate_inp_file *)

\* lines joined by line breaks: '\n'.join(lines)
RECURSIVE JoinLines(_)
JoinLines(lines) ==
    IF lines = <<>> THEN <<>>
    ELSE IF Len(lines) = 1 THEN Head(lines)
    ELSE Head(lines) \o <<NL>> \o JoinLines(Tail(lines))

\* the line is a comment: stripped, it begins with ';'
IsCommentLine(line) ==
    Parts(line) # <<>> /\ StartsWithSemicolon(Parts(line)[1])

\* the text without its comment lines
WithoutComments(text) ==
    JoinLines(SelectSeq(SplitLines(text), LAMBDA l : ~IsCommentLine(l)))

\* C26: comment lines (beginning with ';') and blank lines never contribute
\* data tokens to any check: in every validator, including the dialect-B
\* topology check of validate_inp_file, a comment line inside a junction,
\* tank, reservoir or pipe section neither defines a node nor is examined as
\* a pipe, so it can never produce an issue: the issues of a document are
\* those of the document without its comment lines.
C26_CommentsNeverCount ==
    (dialect = "B" /\ validate_calls >= 1)
        => issues = validate_inp_file(WithoutComments(content))

\* the nodes defined by the data rows of the junction, tank and reservoir
\* sections
DefinedNodes(lines) ==
    {Parts(lines[i])[1] :
        i \in RowsOf(lines, "[JUNCTIONS]") \cup RowsOf(lines, "[TANKS]")
              \cup RowsOf(lines, "[RESERVOIRS]")}

\* the pipe rows: data rows of the pipe section with both endpoint fields
PipeRows(lines) ==
    {i \in RowsOf(lines, "[PIPES]") : Len(Parts(lines[i])) >= 3}

\* the endpoint nodes (2nd and 3rd fields) of the pipe rows that are not
\* defined
UndefinedEndpoints(lines) ==
    {Parts(lines[i])[f] : i \in PipeRows(lines), f \in {2, 3}}
        \ DefinedNodes(lines)

\* C27: in the dialect-B topology check, for each pipe row examined an
\* undefined-node issue is emitted exactly for those of the pipe's two
\* endpoint nodes (2nd and 3rd fields) that are not defined in [JUNCTIONS],
\* [TANKS] or [RESERVOIRS]; the pipe's own identifier (1st field) is never
\* looked up as a node.
C27_EndpointsLookedUp ==
    (dialect = "B" /\ validate_calls >= 1)
        => {issues[k].arg :
               k \in WithMsg(issues, "Pipe references undefined node")}
           = UndefinedEndpoints(SplitLines(content))

-----------------------------------------------------------------------------
(* examples/validate_input.py: validate_swmm_file, one line at a time      *)

\* longest document of the bracket family, in lines
MaxBracketLines == 3

BracketLines ==
    { Header("[TIMESERIES]"),
      Header("[backdrop]"),
      <<IND, "[RAINGAGES]">>,
      <<"[OPTIONS">>,
      <<"RAINGAGES]">>,
      <<"[TIMESERIES]", ";J9">>,
      <<"TS1", "0", "0.5">>,
      <<";", "[mm/hr]">>,
      <<>> }

ScanDocs ==
    LintDocs \cup {Text(x) : x \in SeqsUpTo(BracketLines, MaxBracketLines)}

InitScan ==
    /\ scan_pc = "loop"
    /\ scan_lines \in {SplitLines(text) : text \in ScanDocs}
    /\ scan_i = 1
    /\ current_section = ""
    /\ section_order = <<>>
    /\ defined_timeseries = {}
    /\ scan_issues = <<>>
    /\ DocIdle
    /\ BatchIdle
    /\ LintIdle
    /\ ClientIdle
    /\ RunBatchIdle
    /\ IniIdle

scanfixed == <<docvars, batchvars, lintvars, clientvars, runbatchvars,
               inivars, scan_lines>>

\* for i, line in enumerate(lines, 1): one iteration (lines 36-119)
Scan_Line ==
    /\ scan_pc = "loop"
    /\ scan_i <= Len(scan_lines)
    /\ LET st == LintStep(scan_lines[scan_i], scan_i,
                          [section |-> current_section,
                           order |-> section_order,
                           defined |-> defined_timeseries,
                           issues |-> scan_issues])
       IN  /\ current_section' = st.section
           /\ section_order' = st.order
           /\ defined_timeseries' = st.defined
           /\ scan_issues' = st.issues
    /\ scan_i' = scan_i + 1
    /\ UNCHANGED <<scanfixed, scan_pc>>

\* the loop is over: the section order is checked and the issues returned
\* (lines 121-132)
Scan_Return ==
    /\ scan_pc = "loop"
    /\ scan_i > Len(scan_lines)
    /\ scan_issues' = scan_issues \o SectionOrderIssues(section_order)
    /\ scan_pc' = "returned"
    /\ UNCHANGED <<scanfixed, scan_i, current_section, section_order,
                   defined_timeseries>>

NextScan ==
    \/ Scan_Line
    \/ Scan_Return

SpecScan == InitScan /\ [][NextScan]_vars

\* the line scanned by the step that is being taken
ScannedLine == scan_lines[scan_i]

\* a data line of a time-series section: not blank, not a comment, not a
\* section header
SeriesRows(lines) == RowsOf(lines, "[TIMESERIES]")

\* C25: the set of defined time-series (likewise pattern and curve) names
\* built by validate_swmm_file equals exactly the set of first
\* whitespace-separated tokens of the non-comment, non-blank data lines
\* inside sections of that name; it contains nothing else, in particular not
\* the bracketed section header itself.
C25_DefinedNamesExact ==
    scan_pc = "returned"
        => defined_timeseries
           = {Parts(scan_lines[i])[1] : i \in SeriesRows(scan_lines)}

\* the line, trimmed, begins with '[' and ends with ']'
WellBracketed(line) ==
    /\ Parts(line) # <<>>
    /\ Parts(line)[1] \in BracketWords
    /\ \/ Parts(line)[Len(Parts(line))] \in BracketWords \ {"[OPTIONS"}
       \/ Parts(line)[Len(Parts(line))] = "RAINGAGES]"

\* the line has a bracket at one end only
MalformedBrackets(line) ==
    /\ Parts(line) # <<>>
    /\ ~WellBracketed(line)
    /\ \/ Parts(line)[1] \in BracketWords
       \/ Parts(line)[Len(Parts(line))] = "RAINGAGES]"

\* the names of the well-bracketed lines among the first n lines, in order
RECURSIVE NamesUpTo(_, _)
NamesUpTo(lines, n) ==
    IF n = 0 THEN <<>>
    ELSE IF WellBracketed(lines[n])
    THEN Append(NamesUpTo(lines, n - 1), SectionName(Parts(lines[n])))
    ELSE NamesUpTo(lines, n - 1)

\* C28: while validate_swmm_file scans lines, the current section changes
\* only on a line that, after trimming, begins with '[' and ends with ']',
\* becoming the upper-cased enclosed text; section_order lists these names
\* in order of appearance with duplicates kept; a line with malformed
\* brackets leaves both the current section and section_order unchanged,
\* and the scan goes on to the next line.
C28_SectionTracking ==
    /\ [][scan_i' = scan_i + 1
            => IF WellBracketed(ScannedLine)
               THEN /\ current_section' = SectionName(Parts(ScannedLine))
                    /\ section_order' = Append(section_order, current_section')
               ELSE UNCHANGED <<current_section, section_order>>]_vars
    /\ [](scan_pc = "loop"
            => section_order = NamesUpTo(scan_lines, scan_i - 1))
    /\ [](scan_pc = "returned"
            => /\ scan_i = Len(scan_lines) + 1
               /\ section_order = NamesUpTo(scan_lines, Len(scan_lines)))

\* a returned scan of a document with a malformed line between two headers
\* of the same name
C28_Witness ==
    /\ scan_pc = "returned"
    /\ \E j \in 1..Len(scan_lines) : MalformedBrackets(scan_lines[j])
    /\ current_section = "[TIMESERIES]"
    /\ section_order = <<"[TIMESERIES]", "[TIMESERIES]">>

====
